---- MODULE Spec2Model ----
(***************************************************************************)
(* Model of datapipe/io/images.py, datapipe/denoising/null.py and the      *)
(* score histogram utility: the FITS benchmark loader and writer           *)
(* (load_fits, load_benchmark_images, save_benchmark_images) and the       *)
(* Simtel extractor (simtel_event_to_images, simtel_images_generator).     *)
(*                                                                         *)
(* SpecFits  : one FITS path, the calls that read and write it.            *)
(* SpecImage : one call of simtel_event_to_images on one telescope.        *)
(* SpecGen   : one simtel_images_generator consumed by next() calls.       *)
(* SpecWalk  : image_files_in_dir / image_files_in_paths over a small disk.*)
(* SpecBatch : image_generator over a list of FITS and Simtel files.       *)
(* SpecMain  : the batch driver of datapipe/denoising/null.py.             *)
(* SpecPixels: null and fill_nan_pixels applied to small pixel arrays.     *)
(* SpecRecord: the image records of the FITS loader and of the extractor.  *)
(* SpecStats : utils/plot_score_histogram_by_decades_of_energy.py.         *)
(* SpecCalib : the generators of one process and the calibration library's *)
(*             integration correction they patch.                          *)
(***************************************************************************)
EXTENDS Integers, Sequences, FiniteSets, TLC

VARIABLES
    fs,            \* the FITS file at the path: NoFile or its list of HDUs
    open_handles,  \* FITS handles opened by fits.open() and not closed
    saved,         \* arguments of the save_benchmark_images call that wrote fs
    ret,           \* outcome of the last FITS call
    tel_event,     \* the telescope data handed to simtel_event_to_images
    image,         \* outcome of the last simtel_event_to_images call
    source,        \* the Simtel file of the generator: cameras and events
    gen,           \* the generator frame: arguments, position, status
    yielded,       \* images yielded so far by the generator, in order
    close_calls,   \* number of pyhessio.close_file() calls
    disk,          \* the listing of the directory the discovery walks
    walk,          \* the frame of the file discovery generator
    batch,         \* the frame of image_generator
    job,           \* the run of the batch driver
    pixels,        \* an image array handed to null or fill_nan_pixels, and the result
    dl1_integration_correction, \* the attribute ctapipe.calib.camera.dl1.integration_correction
    gens,          \* the simtel_images_generator objects of one process, in creation order
    stats          \* the run of the score histogram utility

vars == <<fs, open_handles, saved, ret, tel_event, image, source, gen, yielded, close_calls,
          disk, walk, batch, job, pixels, dl1_integration_correction, gens, stats>>

fits_vars == <<fs, open_handles, saved, ret>>
image_vars == <<tel_event, image>>
gen_vars == <<source, gen, yielded, close_calls>>
walk_vars == <<disk, walk>>
batch_vars == <<batch>>
main_vars == <<job>>
pixel_vars == <<pixels>>
calib_vars == <<dl1_integration_correction, gens>>
stats_vars == <<stats>>

-----------------------------------------------------------------------------
(* Bounds of the model                                                     *)

MaxHdus == 8        \* external FITS files hold 1..MaxHdus HDUs
MaxBad == 1         \* arrays of wrong dimensionality in one save call
MaxLabel == 1       \* pixel contents of the saved arrays: labelings 0 and MaxLabel
MaxOpen == 1        \* leaked FITS handles tracked
MaxNeg == 2         \* load_fits is tried with the HDU indexes -MaxNeg..MaxHdus+1
MaxVersion == 2     \* format versions up to MaxVersion appear in headers
NPix == 2           \* pixels of a camera
NSamples == 2       \* ADC samples of a pixel's waveform
MaxCharge == 1      \* calibrated charges of a pixel: 0..MaxCharge per channel
MaxTel == 2         \* telescopes of a Simtel file: 1..MaxTel
MaxEvents == 2      \* events of a Simtel file
MaxFilterLen == 1   \* entries of a filter list

-----------------------------------------------------------------------------
(* Arrays, HDUs, headers                                                   *)

\* np.nan, as a pixel value outside the range of the sample values
NaN == -1

Array(ndim, px) == [ndim |-> ndim, px |-> px]
NoArray == Array(0, <<>>)

RECURSIVE SeqNanSum(_)
SeqNanSum(px) ==
    IF px = <<>> THEN 0
    ELSE (IF Head(px) = NaN THEN 0 ELSE Head(px)) + SeqNanSum(Tail(px))

\* np.nansum / np.nanmin / np.nanmax: NaN pixels are left out
nansum(a) == SeqNanSum(a.px)
NotNaN(a) == {a.px[i] : i \in {j \in 1..Len(a.px) : a.px[j] # NaN}}
nanmin(a) == IF NotNaN(a) = {} THEN NaN
             ELSE CHOOSE x \in NotNaN(a) : \A y \in NotNaN(a) : x <= y
nanmax(a) == IF NotNaN(a) = {} THEN NaN
             ELSE CHOOSE x \in NotNaN(a) : \A y \in NotNaN(a) : x >= y

\* a header card: value and comment
Card(value, comment) == [value |-> value, comment |-> comment]

\* a metadata entry: a plain value, or a (value, unit) tuple
Scalar(v) == [is_tuple |-> FALSE, v |-> v, unit |-> ""]
Pair(v, u) == [is_tuple |-> TRUE, v |-> v, unit |-> u]

Hdu(is_image, data, header) == [is_image |-> is_image, data |-> data, header |-> header]

NoFile == <<>>

-----------------------------------------------------------------------------
(* Metadata of an image record                                             *)

FitsPath == "bench.fits"
SimtelPath == "gamma.simtel"

\* quantity_to_tuple: the value in the requested unit and the unit's FITS
\* string. hessio delivers every quantity in the unit asked for here, so the
\* conversion leaves the value as it is.
quantity_to_tuple(quantity, unit_str) == Pair(quantity, unit_str)

\* image.meta as simtel_images_generator fills it for one (event, telescope)
generator_meta(cam_id, tel_id, event, inst, file_path) ==
    [cam_id |-> Scalar(cam_id),
     version |-> Scalar(1),
     tel_id |-> Scalar(tel_id),
     event_id |-> Scalar(event.event_id),
     file_path |-> Scalar(file_path),
     simtel_path |-> Scalar(file_path),
     num_tel_with_trigger |-> Scalar(Len(event.tels_with_trigger)),
     mc_energy |-> quantity_to_tuple(event.mc.energy, "TeV"),
     mc_azimuth |-> quantity_to_tuple(event.mc.az, "rad"),
     mc_altitude |-> quantity_to_tuple(event.mc.alt, "rad"),
     mc_core_x |-> quantity_to_tuple(event.mc.core_x, "m"),
     mc_core_y |-> quantity_to_tuple(event.mc.core_y, "m"),
     mc_height_first_interaction |-> quantity_to_tuple(event.mc.h_first_int, "m"),
     ev_count |-> Scalar(event.count),
     run_id |-> Scalar(event.run_id),
     num_tel_with_data |-> Scalar(Len(event.tels_with_data)),
     optical_foclen |-> quantity_to_tuple(inst.optical_foclen[tel_id], "m"),
     tel_pos_x |-> quantity_to_tuple(inst.tel_pos[tel_id][1], "m"),
     tel_pos_y |-> quantity_to_tuple(inst.tel_pos[tel_id][2], "m"),
     tel_pos_z |-> quantity_to_tuple(inst.tel_pos[tel_id][3], "m")]

\* The header keywords load_benchmark_images reads, in the order it reads
\* them: the metadata key it fills, the header keyword, and the metadata key
\* that receives the keyword's comment ("" when the comment is not read).
Field(meta, card, unit) == [meta |-> meta, card |-> card, unit |-> unit]

LoadFields ==
    << Field("version", "version", ""),
       Field("cam_id", "cam_id", ""),
       Field("tel_id", "tel_id", ""),
       Field("event_id", "event_id", ""),
       Field("simtel_path", "simtel", ""),
       Field("num_tel_with_trigger", "tel_trig", ""),
       Field("mc_energy", "energy", "mc_energy_unit"),
       Field("mc_azimuth", "mc_az", "mc_azimuth_unit"),
       Field("mc_altitude", "mc_alt", "mc_altitude_unit"),
       Field("mc_core_x", "mc_corex", "mc_core_x_unit"),
       Field("mc_core_y", "mc_corey", "mc_core_y_unit"),
       Field("mc_height_first_interaction", "mc_hfi", "mc_height_first_interaction_unit"),
       Field("ev_count", "count", ""),
       Field("run_id", "run_id", ""),
       Field("num_tel_with_data", "tel_data", ""),
       Field("optical_foclen", "foclen", "optical_foclen_unit"),
       Field("tel_pos_x", "tel_posx", "tel_pos_x_unit"),
       Field("tel_pos_y", "tel_posy", "tel_pos_y_unit"),
       Field("tel_pos_z", "tel_posz", "tel_pos_z_unit") >>

FieldIdx == 1..Len(LoadFields)
LoadCards == {LoadFields[i].card : i \in FieldIdx}
FieldOfCard(card) == LoadFields[CHOOSE i \in FieldIdx : LoadFields[i].card = card]

-----------------------------------------------------------------------------
(* save_benchmark_images                                                   *)

\* the seven "ndim" checks, in the order of the code: the first that fails raises
save_ndim_ok(img, pe_img, adc_sums_img, pedestal_img, gains_img, pixel_pos, pixel_mask) ==
    /\ img.ndim = 2
    /\ pe_img.ndim = 2
    /\ adc_sums_img.ndim = 3
    /\ pedestal_img.ndim = 3
    /\ gains_img.ndim = 3
    /\ pixel_pos.ndim = 3
    /\ pixel_mask.ndim = 2

DescHeader(desc) == [desc |-> Card(desc, "")]

\* hdu0.header after the loop over metadata.items(): a tuple sets the card's
\* value and comment, anything else the value alone
save_header(header, metadata) ==
    [key \in DOMAIN header \cup DOMAIN metadata |->
        IF key \in DOMAIN metadata
        THEN IF metadata[key].is_tuple
             THEN Card(metadata[key].v, metadata[key].unit)
             ELSE Card(metadata[key].v,
                       IF key \in DOMAIN header THEN header[key].comment ELSE "")
        ELSE header[key]]

\* fits.HDUList([hdu0, hdu1, hdu2, hdu3, hdu4, hdu6, hdu7])
save_hdu_list(img, pe_img, adc_sums_img, pedestal_img, gains_img, pixel_pos, pixel_mask, metadata) ==
    << Hdu(TRUE, img, save_header(DescHeader("calibrated image"), metadata)),
       Hdu(TRUE, pe_img, DescHeader("pe image")),
       Hdu(TRUE, adc_sums_img, DescHeader("adc sum images")),
       Hdu(TRUE, pedestal_img, DescHeader("pedestal images")),
       Hdu(TRUE, gains_img, DescHeader("gains images")),
       Hdu(TRUE, pixel_pos, DescHeader("pixels position")),
       Hdu(TRUE, pixel_mask, DescHeader("pixels mask")) >>

\* if os.path.isfile(output_file_path): os.remove(output_file_path)
save_remove(file) == NoFile

\* hdu_list.writeto(path): astropy refuses to overwrite an existing file
writeto(hdu_list, file) ==
    IF file # NoFile THEN [outcome |-> "OSError", fs |-> file]
    ELSE [outcome |-> "ok", fs |-> hdu_list]

\* a slip in the order: the old file removed before the arrays are checked
save_benchmark_images_remove_first(img, pe_img, adc_sums_img, pedestal_img, gains_img, pixel_pos, pixel_mask, metadata, file) ==
    IF ~save_ndim_ok(img, pe_img, adc_sums_img, pedestal_img, gains_img, pixel_pos, pixel_mask)
    THEN [outcome |-> "Exception", fs |-> save_remove(file)]
    ELSE writeto(save_hdu_list(img, pe_img, adc_sums_img, pedestal_img, gains_img,
                               pixel_pos, pixel_mask, metadata),
                 save_remove(file))

\* the whole call: the outcome and the file at the path afterwards
save_benchmark_images(img, pe_img, adc_sums_img, pedestal_img, gains_img, pixel_pos, pixel_mask, metadata, file) ==
    IF ~save_ndim_ok(img, pe_img, adc_sums_img, pedestal_img, gains_img, pixel_pos, pixel_mask)
    THEN [outcome |-> "Exception", fs |-> file]
    ELSE writeto(save_hdu_list(img, pe_img, adc_sums_img, pedestal_img, gains_img,
                               pixel_pos, pixel_mask, metadata),
                 save_remove(file))

-----------------------------------------------------------------------------
(* load_benchmark_images                                                   *)

\* outcome of a FITS call: the error class raised ("ok" when none), what the
\* call returns, and whether the handle it opened was closed on the way out
Ret(op, outcome, images, meta, array, opened, closed, hdu_index, dims) ==
    [op |-> op, outcome |-> outcome, images |-> images, meta |-> meta,
     array |-> array, opened |-> opened, closed |-> closed,
     hdu_index |-> hdu_index, dims |-> dims]

NoImages == <<>>
NoMeta == <<>>
NoDims == <<>>

\* the header reads of lines 880-922: hdu0.header[card] raises KeyError for a
\* keyword the header does not hold
load_header_ok(hdu_list) == \A card \in LoadCards : card \in DOMAIN hdu_list[1].header

MetaKeys == {LoadFields[i].meta : i \in FieldIdx}
UnitKeys == {LoadFields[i].unit : i \in FieldIdx} \ {""}
StatKeys == {"npe", "min_npe", "max_npe"}

FieldOfMeta(key) == LoadFields[CHOOSE i \in FieldIdx : LoadFields[i].meta = key]
FieldOfUnit(key) == LoadFields[CHOOSE i \in FieldIdx : LoadFields[i].unit = key]

\* metadata_dict before the image section
load_metadata(hdu_list, input_file_path) ==
    [key \in MetaKeys \cup UnitKeys \cup {"file_path"} |->
        IF key = "file_path" THEN input_file_path
        ELSE IF key \in MetaKeys THEN hdu_list[1].header[FieldOfMeta(key).card].value
        ELSE hdu_list[1].header[FieldOfUnit(key).card].comment]

\* the structure test of the version 1 branch
load_structure_ok(hdu_list) ==
    ~ \/ Len(hdu_list) # 7
      \/ ~hdu_list[1].is_image
      \/ ~hdu_list[2].is_image
      \/ ~hdu_list[3].is_image
      \/ ~hdu_list[4].is_image
      \/ ~hdu_list[5].is_image
      \/ ~hdu_list[6].is_image
      \/ ~hdu_list[7].is_image

\* a slip in the unpacking: the last two HDUs taken in the other order
load_images_dict_swapped(hdu_list) ==
    [input_image |-> hdu_list[1].data,
     reference_image |-> hdu_list[2].data,
     adc_sum_image |-> hdu_list[3].data,
     pedestal_image |-> hdu_list[4].data,
     gains_image |-> hdu_list[5].data,
     pixels_position |-> hdu_list[7].data,
     pixels_mask |-> hdu_list[6].data,
     input_samples |-> NoArray,
     adc_samples |-> NoArray,
     extracted_samples |-> NoArray,
     peakpos |-> NoArray]

\* hdu0, hdu1, hdu2, hdu3, hdu4, hdu6, hdu7 = hdu_list, and images_dict
load_images_dict(hdu_list) ==
    [input_image |-> hdu_list[1].data,
     reference_image |-> hdu_list[2].data,
     adc_sum_image |-> hdu_list[3].data,
     pedestal_image |-> hdu_list[4].data,
     gains_image |-> hdu_list[5].data,
     pixels_position |-> hdu_list[6].data,
     pixels_mask |-> hdu_list[7].data,
     input_samples |-> NoArray,
     adc_samples |-> NoArray,
     extracted_samples |-> NoArray,
     peakpos |-> NoArray]

\* metadata_dict with the statistics of the reference image added
load_stats(metadata_dict, images_dict) ==
    [key \in DOMAIN metadata_dict \cup StatKeys |->
        IF key = "npe" THEN nansum(images_dict.reference_image)
        ELSE IF key = "min_npe" THEN nanmin(images_dict.reference_image)
        ELSE IF key = "max_npe" THEN nanmax(images_dict.reference_image)
        ELSE metadata_dict[key]]

\* the error raised for a version number that is not 1, and whether the
\* handle is closed before raising
load_unknown_version(hdu_list) ==
    Ret("load_benchmark_images", "Exception", NoImages, NoMeta, NoArray, TRUE, FALSE, 0, NoDims)

\* the whole call on the file at input_file_path
load_benchmark_images(file, input_file_path) ==
    IF file = NoFile
    THEN Ret("load_benchmark_images", "FileNotFoundError", NoImages, NoMeta, NoArray,
             FALSE, FALSE, 0, NoDims)
    ELSE IF ~load_header_ok(file)
    THEN Ret("load_benchmark_images", "KeyError", NoImages, NoMeta, NoArray,
             TRUE, FALSE, 0, NoDims)
    ELSE IF load_metadata(file, input_file_path)["version"] = 1
    THEN IF ~load_structure_ok(file)
         THEN Ret("load_benchmark_images", "WrongFitsFileStructure", NoImages, NoMeta,
                  NoArray, TRUE, TRUE, 0, NoDims)
         ELSE Ret("load_benchmark_images", "ok", load_images_dict(file),
                  load_stats(load_metadata(file, input_file_path), load_images_dict(file)),
                  NoArray, TRUE, TRUE, 0, NoDims)
    ELSE load_unknown_version(file)

-----------------------------------------------------------------------------
(* load_fits                                                               *)

\* a slip in the range test: HDU 0 refused
load_fits_in_range_strict(hdu_list, hdu_index) == 0 < hdu_index /\ hdu_index < Len(hdu_list)

\* not (0 <= hdu_index < len(hdu_list)); HDU k of the file is hdu_list[k + 1]
load_fits_in_range(hdu_list, hdu_index) == 0 <= hdu_index /\ hdu_index < Len(hdu_list)

load_fits(file, hdu_index) ==
    IF file = NoFile
    THEN Ret("load_fits", "FileNotFoundError", NoImages, NoMeta, NoArray,
             FALSE, FALSE, hdu_index, NoDims)
    ELSE IF ~load_fits_in_range(file, hdu_index)
    THEN Ret("load_fits", "WrongHDUError", NoImages, NoMeta, NoArray,
             TRUE, TRUE, hdu_index, NoDims)
    ELSE IF ~file[hdu_index + 1].is_image
    THEN Ret("load_fits", "NotAnImageError", NoImages, NoMeta, NoArray,
             TRUE, TRUE, hdu_index, NoDims)
    ELSE Ret("load_fits", "ok", NoImages, NoMeta, file[hdu_index + 1].data,
             TRUE, TRUE, hdu_index, NoDims)

-----------------------------------------------------------------------------
(* Events of a Simtel file, as far as the metadata reads them               *)

MakeEvent(event_id, count, tels, tel_data) ==
    [event_id |-> event_id, count |-> count, run_id |-> 1,
     tels_with_trigger |-> tels, tels_with_data |-> tels, tel |-> tel_data,
     mc |-> [energy |-> event_id, az |-> 0, alt |-> 1,
             core_x |-> event_id, core_y |-> 0, h_first_int |-> 2]]

MakeInst(cams) ==
    [cam_id |-> cams,
     optical_foclen |-> [t \in DOMAIN cams |-> t],
     tel_pos |-> [t \in DOMAIN cams |-> <<t, 0, t>>]]

-----------------------------------------------------------------------------
(* The FITS files and arguments the calls are tried on                     *)

\* metadata of one image of one event, as the generator builds it
SampleMeta ==
    generator_meta("FlashCam", 1, MakeEvent(1, 0, <<1>>, <<>>), MakeInst(<<"FlashCam">>), SimtelPath)

\* the same entries under the keywords of the version 1 layout, which is what
\* a file must carry in its primary header for load_benchmark_images
header_meta(metadata, version) ==
    [card \in LoadCards |->
        IF card = "version" THEN Scalar(version)
        ELSE metadata[FieldOfCard(card).meta]]

MetaChoices ==
    {SampleMeta} \cup {header_meta(SampleMeta, v) : v \in {1, MaxVersion}}

\* a version 1 file needs, per role, this number of dimensions
RoleNdim == <<2, 2, 3, 3, 3, 3, 2>>
Roles == 1..Len(RoleNdim)

BadSets == {bad \in SUBSET Roles : Cardinality(bad) <= MaxBad}

\* the array passed for role r: of the wrong dimensionality when r \in bad
ArgArray(r, bad, label) ==
    Array(IF r \in bad THEN 5 - RoleNdim[r] ELSE RoleNdim[r],
          <<r + label, IF label > 0 THEN NaN ELSE r>>)

\* what the caller knows of the ndim of its arguments: which roles are wrong
ArgDims(bad) == [r \in Roles |-> r \in bad]

\* a FITS file not written by save_benchmark_images: n HDUs, a table at HDU
\* table_at (none when 0; the primary HDU is always an image), and a primary
\* header of the given version (none when 0, as save_fits writes it)
ExternalFile(n, table_at, version) ==
    [k \in 1..n |->
        Hdu(k # table_at,
            IF k = table_at THEN NoArray ELSE Array(2, <<k, k>>),
            IF k = 1 /\ version # 0
            THEN save_header(<<>>, header_meta(SampleMeta, version))
            ELSE <<>>)]

ExternalFiles ==
    {ExternalFile(n, t, v) : n \in 1..MaxHdus, t \in {0} \cup 2..MaxHdus, v \in 0..MaxVersion}

NotSaved == [valid |-> FALSE, imgs |-> <<>>, metadata |-> <<>>]
NoCall == Ret("", "", NoImages, NoMeta, NoArray, FALSE, FALSE, 0, NoDims)

InitFits ==
    /\ pixels = <<>>
    /\ dl1_integration_correction = <<>>
    /\ gens = <<>>
    /\ stats = <<>>
    /\ fs \in ExternalFiles \cup {NoFile}
    /\ open_handles = 0
    /\ saved = NotSaved
    /\ ret = NoCall
    /\ tel_event = <<>>
    /\ image = <<>>
    /\ source = <<>>
    /\ gen = <<>>
    /\ yielded = <<>>
    /\ close_calls = 0
    /\ disk = <<>>
    /\ walk = <<>>
    /\ batch = <<>>
    /\ job = <<>>

\* handles left open by a call
Leak(r) == IF r.opened /\ ~r.closed THEN 1 ELSE 0

Call_save_benchmark_images ==
    \E bad \in BadSets, label \in {0, MaxLabel}, metadata \in MetaChoices :
        LET a == [r \in Roles |-> ArgArray(r, bad, label)]
            out == save_benchmark_images(a[1], a[2], a[3], a[4], a[5], a[6], a[7],
                                         metadata, fs)
        IN /\ fs' = out.fs
           /\ saved' = IF out.outcome = "ok"
                       THEN [valid |-> TRUE, imgs |-> a, metadata |-> metadata]
                       ELSE saved
           /\ ret' = Ret("save_benchmark_images", out.outcome, NoImages, NoMeta, NoArray,
                         FALSE, FALSE, 0, ArgDims(bad))
           /\ UNCHANGED open_handles

Call_load_benchmark_images ==
    LET r == load_benchmark_images(fs, FitsPath)
    IN /\ open_handles + Leak(r) <= MaxOpen
       /\ ret' = r
       /\ open_handles' = open_handles + Leak(r)
       /\ UNCHANGED <<fs, saved>>

Call_load_fits ==
    \E hdu_index \in (0 - MaxNeg)..(MaxHdus + 1) :
        LET r == load_fits(fs, hdu_index)
        IN /\ open_handles + Leak(r) <= MaxOpen
           /\ ret' = r
           /\ open_handles' = open_handles + Leak(r)
           /\ UNCHANGED <<fs, saved>>

NextFits ==
    \/ Call_save_benchmark_images /\ UNCHANGED <<image_vars, gen_vars, walk_vars, batch_vars, main_vars, pixel_vars, calib_vars, stats_vars>>
    \/ Call_load_benchmark_images /\ UNCHANGED <<image_vars, gen_vars, walk_vars, batch_vars, main_vars, pixel_vars, calib_vars, stats_vars>>
    \/ Call_load_fits /\ UNCHANGED <<image_vars, gen_vars, walk_vars, batch_vars, main_vars, pixel_vars, calib_vars, stats_vars>>

SpecFits == InitFits /\ [][NextFits]_vars

-----------------------------------------------------------------------------
(* simtel_event_to_images                                                  *)

SINGLE_CHANNEL_CAMERAS == {"CHEC", "DigiCam", "FlashCam"}
TWO_CHANNELS_CAMERAS == {"ASTRICam", "NectarCam", "LSTCam"}

ASTRI_CAM_CHANNEL_THRESHOLD == 2^12 - 1
NECTAR_CAM_CHANNEL_THRESHOLD == 2^12 - 1
LST_CAM_CHANNEL_THRESHOLD == 2^12 - 1

None == <<>>

\* a camera model CameraGeometry.guess() knows and this module does not
OtherCam == "SCTCam"
CamIds == SINGLE_CHANNEL_CAMERAS \cup TWO_CHANNELS_CAMERAS \cup {OtherCam}

SeqMax(s) == CHOOSE x \in {s[i] : i \in 1..Len(s)} : \A j \in 1..Len(s) : s[j] <= x
SeqMin(s) == CHOOSE x \in {s[i] : i \in 1..Len(s)} : \A j \in 1..Len(s) : x <= s[j]

\* r0_adc_samples[0].max(axis=1): per pixel, the largest sample of channel 0
hg_peak(r0_adc_samples) ==
    [p \in 1..Len(r0_adc_samples[1]) |-> SeqMax(r0_adc_samples[1][p])]

\* calibrated_image[1, peak < threshold] = 0
zero_low_gain(calibrated_image, peak, threshold) ==
    [calibrated_image EXCEPT ![2] =
        [p \in 1..Len(@) |-> IF peak[p] < threshold THEN 0 ELSE @[p]]]

\* a slip at the boundary: the low-gain channel kept only above the threshold
zero_high_gain_above(calibrated_image, peak, threshold) ==
    [calibrated_image EXCEPT ![1] =
        [p \in 1..Len(@) |-> IF peak[p] > threshold THEN 0 ELSE @[p]]]

\* calibrated_image[0, peak >= threshold] = 0
zero_high_gain(calibrated_image, peak, threshold) ==
    [calibrated_image EXCEPT ![1] =
        [p \in 1..Len(@) |-> IF peak[p] >= threshold THEN 0 ELSE @[p]]]

\* calibrated_image.sum(axis=0)
RECURSIVE sum_axis0_from(_, _, _)
sum_axis0_from(a, c, p) ==
    IF c > Len(a) THEN 0 ELSE a[c][p] + sum_axis0_from(a, c + 1, p)
sum_axis0(a) == [p \in 1..Len(a[1]) |-> sum_axis0_from(a, 1, p)]

mix_two_channels(calibrated_image, r0_adc_samples, threshold) ==
    sum_axis0(zero_high_gain(zero_low_gain(calibrated_image, hg_peak(r0_adc_samples), threshold),
                             hg_peak(r0_adc_samples), threshold))

\* the "if mix_channels:" block: the image, or the error raised
mix_channels_block(calibrated_image, r0_adc_samples, cam_id) ==
    IF cam_id = "ASTRICam"
    THEN [outcome |-> "ok",
          image |-> mix_two_channels(calibrated_image, r0_adc_samples, ASTRI_CAM_CHANNEL_THRESHOLD)]
    ELSE IF cam_id = "NectarCam"
    THEN [outcome |-> "ok",
          image |-> mix_two_channels(calibrated_image, r0_adc_samples, NECTAR_CAM_CHANNEL_THRESHOLD)]
    ELSE IF cam_id = "LSTCam"
    THEN [outcome |-> "ok",
          image |-> mix_two_channels(calibrated_image, r0_adc_samples, LST_CAM_CHANNEL_THRESHOLD)]
    ELSE IF cam_id \in SINGLE_CHANNEL_CAMERAS
    THEN [outcome |-> "ok", image |-> calibrated_image[1]]
    ELSE [outcome |-> "NotImplementedError", image |-> None]

\* geometry_converter.image_1d_to_2d: the pixels laid on a grid that has
\* blank (NaN) cells; here a grid of one row with one blank cell at its end
image_1d_to_2d(img_1d, cam_id) == << img_1d \o <<NaN>> >>

\* np.linspace(lo, hi, n), for the values the model gives it
linspace(lo, hi, n) ==
    [i \in 1..n |-> IF n = 1 THEN lo ELSE lo + ((i - 1) * (hi - lo)) \div (n - 1)]

\* np.meshgrid(xs, ys): two arrays of len(ys) rows and len(xs) columns
meshgrid(xs, ys) ==
    << [r \in 1..Len(ys) |-> [c \in 1..Len(xs) |-> xs[c]]],
       [r \in 1..Len(ys) |-> [c \in 1..Len(xs) |-> ys[r]]] >>

\* the mock pixel position array
mock_pixel_pos_2d(pixel_pos, pe_image_2d) ==
    meshgrid(linspace(SeqMin(pixel_pos[1]), SeqMax(pixel_pos[1]), Len(pe_image_2d)),
             linspace(SeqMin(pixel_pos[2]), SeqMax(pixel_pos[2]), Len(pe_image_2d[1])))

\* np.ones(pe_image.shape)
ones(shape_of) == [p \in 1..Len(shape_of) |-> 1]

ImageRecord(kind, input_image, input_samples, reference_image, adc_samples, extracted_samples, peakpos, adc_sum_image, pedestal_image, gains_image, pixels_position, pixels_mask, meta) ==
    [kind |-> kind, input_image |-> input_image, input_samples |-> input_samples,
     reference_image |-> reference_image, adc_samples |-> adc_samples,
     extracted_samples |-> extracted_samples, peakpos |-> peakpos,
     adc_sum_image |-> adc_sum_image, pedestal_image |-> pedestal_image,
     gains_image |-> gains_image, pixels_position |-> pixels_position,
     pixels_mask |-> pixels_mask, meta |-> meta]

\* the Image1D of the "if ctapipe_format:" branch
make_image_1d(t, calibrated_image) ==
    ImageRecord("Image1D", calibrated_image, t.dl0_pe_samples, t.pe_image,
                t.r0_adc_samples, t.dl1_extracted_samples, t.dl1_peakpos,
                t.r0_adc_sums, t.pedestal, t.gain, t.pixel_pos, None,
                [cam_id |-> Scalar(t.cam_id)])

\* the per-channel arrays converted one channel at a time
channels_1d_to_2d(a, cam_id) ==
    IF cam_id \in SINGLE_CHANNEL_CAMERAS
    THEN << image_1d_to_2d(a[1], cam_id) >>
    ELSE << image_1d_to_2d(a[1], cam_id), image_1d_to_2d(a[2], cam_id) >>

\* the Image2D of the "else" branch, for a camera of one of the two families
make_image_2d(t, calibrated_image) ==
    ImageRecord("Image2D",
                image_1d_to_2d(calibrated_image, t.cam_id),
                None,
                image_1d_to_2d(t.pe_image, t.cam_id),
                None, None, None,
                channels_1d_to_2d(t.r0_adc_sums, t.cam_id),
                channels_1d_to_2d(t.pedestal, t.cam_id),
                channels_1d_to_2d(t.gain, t.cam_id),
                mock_pixel_pos_2d(t.pixel_pos, image_1d_to_2d(t.pe_image, t.cam_id)),
                image_1d_to_2d(ones(t.pe_image), t.cam_id),
                [cam_id |-> Scalar(t.cam_id)])

\* the whole call on the data of telescope tel_id of the event
simtel_event_to_images(event, tel_id, ctapipe_format, mix_channels) ==
    LET t == event.tel[tel_id]
        mixed == IF mix_channels
                 THEN mix_channels_block(t.dl1_image, t.r0_adc_samples, t.cam_id)
                 ELSE [outcome |-> "ok", image |-> t.dl1_image]
    IN IF mixed.outcome # "ok"
       THEN [outcome |-> mixed.outcome, image |-> None]
       ELSE IF ctapipe_format
       THEN [outcome |-> "ok", image |-> make_image_1d(t, mixed.image)]
       ELSE IF t.cam_id \in SINGLE_CHANNEL_CAMERAS \cup TWO_CHANNELS_CAMERAS
       THEN [outcome |-> "ok", image |-> make_image_2d(t, mixed.image)]
       ELSE [outcome |-> "NotImplementedError", image |-> None]

-----------------------------------------------------------------------------
(* One telescope of one event, and the call that extracts its images       *)

NumChannels(cam_id) == IF cam_id \in TWO_CHANNELS_CAMERAS THEN 2 ELSE 1

\* the raw peaks the model tries: just below, at and just above the threshold
AdcPeaks == {LST_CAM_CHANNEL_THRESHOLD - 1, LST_CAM_CHANNEL_THRESHOLD, LST_CAM_CHANNEL_THRESHOLD + 1}
Charges == 0..MaxCharge
Pixels == 1..NPix

\* the data of a telescope: the high-gain waveform of pixel p peaks with
\* peaks[p] at sample "at"; hg and lg are the calibrated charges per channel
TelData(cam_id, peaks, at, hg, lg) ==
    LET chans == 1..NumChannels(cam_id)
        wave == [c \in chans |-> [p \in Pixels |-> [k \in 1..NSamples |->
                    IF c = 1 /\ k = at THEN peaks[p] ELSE 0]]]
    IN [cam_id |-> cam_id,
        pixel_pos |-> << [p \in Pixels |-> (p - 1) * NPix], [p \in Pixels |-> (p - 1) * NPix] >>,
        pe_image |-> [p \in Pixels |-> p],
        pedestal |-> [c \in chans |-> [p \in Pixels |-> c]],
        gain |-> [c \in chans |-> [p \in Pixels |-> 1]],
        r0_adc_sums |-> [c \in chans |-> [p \in Pixels |-> IF c = 1 THEN peaks[p] ELSE 0]],
        r0_adc_samples |-> wave,
        dl0_pe_samples |-> wave,
        dl1_image |-> [c \in chans |-> IF c = 1 THEN hg ELSE lg],
        dl1_extracted_samples |-> [c \in chans |-> [p \in Pixels |-> at]],
        dl1_peakpos |-> [c \in chans |-> [p \in Pixels |-> at]]]

\* low-gain charges: above every high-gain charge, so that a merged pixel
\* tells which channel it kept
LowGainCharges == {[p \in Pixels |-> MaxCharge + q + p] : q \in Charges}

TelEvents ==
    {MakeEvent(1, 0, <<1>>, << TelData(cam_id, peaks, at, hg, lg) >>) :
        cam_id \in CamIds, peaks \in [Pixels -> AdcPeaks], at \in {1, NSamples},
        hg \in [Pixels -> Charges], lg \in LowGainCharges}

\* what the in-place writes of the "if mix_channels:" block leave in the
\* array calibrated_image names: the two channels zeroed for the two-channel
\* cameras; .sum(axis=0) and [0] make new arrays and write nothing
mix_channels_writes(calibrated_image, r0_adc_samples, cam_id) ==
    IF cam_id = "ASTRICam"
    THEN zero_high_gain(zero_low_gain(calibrated_image, hg_peak(r0_adc_samples),
                                      ASTRI_CAM_CHANNEL_THRESHOLD),
                        hg_peak(r0_adc_samples), ASTRI_CAM_CHANNEL_THRESHOLD)
    ELSE IF cam_id = "NectarCam"
    THEN zero_high_gain(zero_low_gain(calibrated_image, hg_peak(r0_adc_samples),
                                      NECTAR_CAM_CHANNEL_THRESHOLD),
                        hg_peak(r0_adc_samples), NECTAR_CAM_CHANNEL_THRESHOLD)
    ELSE IF cam_id = "LSTCam"
    THEN zero_high_gain(zero_low_gain(calibrated_image, hg_peak(r0_adc_samples),
                                      LST_CAM_CHANNEL_THRESHOLD),
                        hg_peak(r0_adc_samples), LST_CAM_CHANNEL_THRESHOLD)
    ELSE calibrated_image

\* calibrated_image = dl1_image, the copy forgotten: the name is bound to the
\* array of the event, which the writes then reach
dl1_image_aliased(dl1_image, written) == written

\* calibrated_image = dl1_image.copy(): the writes reach the copy, and the
\* array of the event holds afterwards what it held before
dl1_image_copy(dl1_image, written) == dl1_image

\* the event after the call: the only array written to is calibrated_image
event_after(event, tel_id, ctapipe_format, mix_channels) ==
    [event EXCEPT !.tel[tel_id].dl1_image =
        dl1_image_copy(@, IF mix_channels
                          THEN mix_channels_writes(@, event.tel[tel_id].r0_adc_samples,
                                                   event.tel[tel_id].cam_id)
                          ELSE @)]

NoImage == [outcome |-> "", image |-> None, ctapipe_format |-> FALSE, mix_channels |-> FALSE]

InitImage ==
    /\ pixels = <<>>
    /\ dl1_integration_correction = <<>>
    /\ gens = <<>>
    /\ stats = <<>>
    /\ tel_event \in TelEvents
    /\ image = NoImage
    /\ fs = NoFile
    /\ open_handles = 0
    /\ saved = NotSaved
    /\ ret = NoCall
    /\ source = <<>>
    /\ gen = <<>>
    /\ yielded = <<>>
    /\ close_calls = 0
    /\ disk = <<>>
    /\ walk = <<>>
    /\ batch = <<>>
    /\ job = <<>>

Call_simtel_event_to_images ==
    \E ctapipe_format \in BOOLEAN, mix_channels \in BOOLEAN :
        LET out == simtel_event_to_images(tel_event, 1, ctapipe_format, mix_channels)
        IN /\ image' = [outcome |-> out.outcome, image |-> out.image,
                        ctapipe_format |-> ctapipe_format, mix_channels |-> mix_channels]
           /\ tel_event' = event_after(tel_event, 1, ctapipe_format, mix_channels)

NextImage == Call_simtel_event_to_images /\ UNCHANGED <<fits_vars, gen_vars, walk_vars, batch_vars, main_vars, pixel_vars, calib_vars, stats_vars>>

SpecImage == InitImage /\ [][NextImage]_vars

-----------------------------------------------------------------------------
(* simtel_images_generator                                                 *)

\* a filter argument: None, or a list
NoneList == [is_none |-> TRUE, items |-> {}]
ListOf(items) == [is_none |-> FALSE, items |-> items]

\* (filter_list is None) or (x in filter_list)
filter_pass(filter_list, x) == filter_list.is_none \/ x \in filter_list.items

INTEGRATORS ==
    {"FullIntegrator", "SimpleIntegrator", "GlobalPeakIntegrator",
     "LocalPeakIntegrator", "NeighbourPeakIntegrator", "AverageWfPeakIntegrator"}

\* the integrator test before the calibrator is built: None and the six
\* names pass, anything else raises ValueError
integrator_ok(integrator) == integrator = "None" \/ integrator \in INTEGRATORS

GenArgs(tel_filter_list, ev_filter_list, cam_filter_list, ctapipe_format, mix_channels, integrator) ==
    [tel_filter_list |-> tel_filter_list, ev_filter_list |-> ev_filter_list,
     cam_filter_list |-> cam_filter_list, ctapipe_format |-> ctapipe_format,
     mix_channels |-> mix_channels, integrator |-> integrator]

\* image.meta[...] = ...: the record that is yielded
with_meta(img, tel_id, event, src) ==
    [img EXCEPT !.meta = generator_meta(img.meta.cam_id.v, tel_id, event, src.inst, src.path)]

GenStop == [kind |-> "end", e |-> 0, t |-> 0, image |-> None]

\* whether the generator yields for telescope number t + 1 of event e
gen_yields(src, args, e, t) ==
    LET event == src.events[e]
        tel_id == event.tels_with_trigger[t + 1]
        out == simtel_event_to_images(event, tel_id, args.ctapipe_format, args.mix_channels)
    IN /\ filter_pass(args.tel_filter_list, tel_id)
       /\ out.outcome = "ok"
       /\ filter_pass(args.cam_filter_list, out.image.meta.cam_id.v)

\* the two nested loops, resumed after telescope number t of event number e:
\* they run to the next yield or to the end of the stream
RECURSIVE gen_resume(_, _, _, _)
gen_resume(src, args, e, t) ==
    IF e > Len(src.events) THEN GenStop
    ELSE IF ~filter_pass(args.ev_filter_list, src.events[e].event_id)
    THEN gen_resume(src, args, e + 1, 0)
    ELSE IF t >= Len(src.events[e].tels_with_trigger)
    THEN gen_resume(src, args, e + 1, 0)
    ELSE IF gen_yields(src, args, e, t)
    THEN [kind |-> "yield", e |-> e, t |-> t + 1,
          image |-> with_meta(
              simtel_event_to_images(src.events[e], src.events[e].tels_with_trigger[t + 1],
                                     args.ctapipe_format, args.mix_channels).image,
              src.events[e].tels_with_trigger[t + 1], src.events[e], src)]
    ELSE gen_resume(src, args, e, t + 1)

-----------------------------------------------------------------------------
(* The Simtel files and generator arguments the model tries                *)

Tels == 1..MaxTel

\* the camera of each telescope: two-channel, unknown to this module, one-channel
GenCamOf(t) ==
    IF t % 3 = 1 THEN "LSTCam" ELSE IF t % 3 = 2 THEN OtherCam ELSE "FlashCam"

GenTelData(t) ==
    TelData(GenCamOf(t), [p \in Pixels |-> LST_CAM_CHANNEL_THRESHOLD - 1], 1,
            [p \in Pixels |-> 1], [p \in Pixels |-> 0])

\* the telescopes of an event that triggered, in ascending order
RECURSIVE AscSeq(_)
AscSeq(S) ==
    IF S = {} THEN <<>>
    ELSE LET m == CHOOSE x \in S : \A y \in S : x <= y IN <<m>> \o AscSeq(S \ {m})

TrigSeqs == {AscSeq(S) : S \in SUBSET Tels \ {{}}}

GenEvent(k, tels) == MakeEvent(k, k - 1, tels, [t \in Tels |-> GenTelData(t)])

Streams ==
    UNION {{[k \in 1..n |-> GenEvent(k, trig[k])] : trig \in [1..n -> TrigSeqs]} : n \in 0..MaxEvents}

Sources ==
    {[path |-> SimtelPath, inst |-> MakeInst([t \in Tels |-> GenCamOf(t)]), events |-> evs] :
        evs \in Streams}

FilterChoices(universe) ==
    {NoneList} \cup {ListOf(S) : S \in {T \in SUBSET universe : Cardinality(T) <= MaxFilterLen}}

ArgChoices ==
    {GenArgs(tf, ef, cf, fmt, mix, integrator) :
        tf \in FilterChoices(Tels), ef \in FilterChoices(1..MaxEvents),
        cf \in FilterChoices({GenCamOf(t) : t \in Tels}),
        fmt \in BOOLEAN, mix \in BOOLEAN,
        integrator \in {"LocalPeakIntegrator", "None", "TwoPassIntegrator"}}

NoGen ==
    [status |-> "none", e |-> 0, t |-> 0, error |-> "",
     args |-> GenArgs(NoneList, NoneList, NoneList, FALSE, TRUE, "LocalPeakIntegrator")]

InitGen ==
    /\ pixels = <<>>
    /\ dl1_integration_correction = <<>>
    /\ gens = <<>>
    /\ stats = <<>>
    /\ source \in Sources
    /\ gen = NoGen
    /\ yielded = <<>>
    /\ close_calls = 0
    /\ fs = NoFile
    /\ open_handles = 0
    /\ saved = NotSaved
    /\ ret = NoCall
    /\ tel_event = <<>>
    /\ image = <<>>
    /\ disk = <<>>
    /\ walk = <<>>
    /\ batch = <<>>
    /\ job = <<>>

\* simtel_images_generator(...): the generator object; nothing of its body runs
Call_simtel_images_generator ==
    /\ gen.status = "none"
    /\ \E args \in ArgChoices :
          gen' = [status |-> "created", e |-> 1, t |-> 0, error |-> "", args |-> args]
    /\ UNCHANGED <<source, yielded, close_calls>>

\* first next(): the integrator is not one of the known names
Next_raises_ValueError ==
    /\ gen.status = "created"
    /\ ~integrator_ok(gen.args.integrator)
    /\ gen' = [gen EXCEPT !.status = "raised", !.error = "ValueError"]
    /\ UNCHANGED <<source, yielded, close_calls>>

GenRunnable ==
    \/ gen.status = "created" /\ integrator_ok(gen.args.integrator)
    \/ gen.status = "suspended"

\* next(): the body runs to its next yield
Next_yields ==
    /\ GenRunnable
    /\ LET r == gen_resume(source, gen.args, gen.e, gen.t)
       IN /\ r.kind = "yield"
          /\ yielded' = Append(yielded, r.image)
          /\ gen' = [gen EXCEPT !.status = "suspended", !.e = r.e, !.t = r.t]
    /\ UNCHANGED <<source, close_calls>>

\* next(): the loops end, pyhessio.close_file() is called, StopIteration
Next_finishes ==
    /\ GenRunnable
    /\ gen_resume(source, gen.args, gen.e, gen.t).kind = "end"
    /\ close_calls' = close_calls + 1
    /\ gen' = [gen EXCEPT !.status = "finished"]
    /\ UNCHANGED <<source, yielded>>

NextGen ==
    \/ Call_simtel_images_generator /\ UNCHANGED <<fits_vars, image_vars, walk_vars, batch_vars, main_vars, pixel_vars, calib_vars, stats_vars>>
    \/ Next_raises_ValueError /\ UNCHANGED <<fits_vars, image_vars, walk_vars, batch_vars, main_vars, pixel_vars, calib_vars, stats_vars>>
    \/ Next_yields /\ UNCHANGED <<fits_vars, image_vars, walk_vars, batch_vars, main_vars, pixel_vars, calib_vars, stats_vars>>
    \/ Next_finishes /\ UNCHANGED <<fits_vars, image_vars, walk_vars, batch_vars, main_vars, pixel_vars, calib_vars, stats_vars>>

SpecGen == InitGen /\ [][NextGen]_vars

-----------------------------------------------------------------------------
(* Properties of the FITS calls                                            *)

\* metadata that makes the written file a valid version 1 file: it carries
\* every keyword of the layout and the version number 1
IsVersion1Meta(metadata) ==
    /\ LoadCards \subseteq DOMAIN metadata
    /\ metadata["version"].v = 1

\* metadata with the keys simtel_images_generator gives an image record
IsGeneratorMeta(metadata) == DOMAIN metadata = DOMAIN SampleMeta

LoadedAfterSave == ret.op = "load_benchmark_images" /\ saved.valid

\* C1: after save_benchmark_images wrote a valid version 1 file, the following
\* load_benchmark_images returns each of the seven arrays in the role it was
\* saved in: none swapped, none dropped.
C1_ArraysRoundTrip ==
    (LoadedAfterSave /\ IsVersion1Meta(saved.metadata)) =>
        /\ ret.outcome = "ok"
        /\ ret.images.input_image = saved.imgs[1]
        /\ ret.images.reference_image = saved.imgs[2]
        /\ ret.images.adc_sum_image = saved.imgs[3]
        /\ ret.images.pedestal_image = saved.imgs[4]
        /\ ret.images.gains_image = saved.imgs[5]
        /\ ret.images.pixels_position = saved.imgs[6]
        /\ ret.images.pixels_mask = saved.imgs[7]

C1_Witness ==
    /\ LoadedAfterSave
    /\ IsVersion1Meta(saved.metadata)
    /\ ret.outcome = "ok"
    /\ ret.images.pixels_mask # ret.images.pixels_position

\* C2: after save_benchmark_images was given the metadata of a generator image
\* record, the following load_benchmark_images succeeds and returns every
\* scalar entry with its saved value and every (value, unit) entry with its
\* saved value and unit.
C2_MetadataRoundTrip ==
    (LoadedAfterSave /\ IsGeneratorMeta(saved.metadata)) =>
        /\ ret.outcome = "ok"
        /\ \A key \in MetaKeys :
              /\ ret.meta[key] = saved.metadata[key].v
              /\ saved.metadata[key].is_tuple =>
                    ret.meta[FieldOfMeta(key).unit] = saved.metadata[key].unit

\* C3: load_fits on a file of n HDUs raises WrongHDUError for every index
\* outside 0..n-1, NotAnImageError for an index in range whose HDU is no
\* image, and returns the array of the HDU otherwise.
C3_LoadFitsOutcome ==
    (ret.op = "load_fits" /\ fs # NoFile) =>
        LET n == Len(fs)
            i == ret.hdu_index
        IN IF i < 0 \/ i >= n THEN ret.outcome = "WrongHDUError"
           ELSE IF ~fs[i + 1].is_image THEN ret.outcome = "NotAnImageError"
           ELSE ret.outcome = "ok" /\ ret.array = fs[i + 1].data

C3_Witness ==
    /\ ret.op = "load_fits"
    /\ ret.outcome = "WrongHDUError"
    /\ ret.hdu_index = Len(fs)
    /\ \E k \in 1..Len(fs) : ~fs[k].is_image

\* C4: load_benchmark_images on a file with fewer than 7 HDUs, or with a
\* non-image HDU among its first 7, raises WrongFitsFileStructure and nothing
\* else.
C4_WrongStructureError ==
    (/\ ret.op = "load_benchmark_images"
     /\ fs # NoFile
     /\ \/ Len(fs) < 7
        \/ \E k \in 1..7 : k <= Len(fs) /\ ~fs[k].is_image)
    => ret.outcome = "WrongFitsFileStructure"

\* C5: load_benchmark_images on a file whose version keyword is not 1 raises
\* WrongFitsFileStructure.
C5_UnknownVersionError ==
    (/\ ret.op = "load_benchmark_images"
     /\ fs # NoFile
     /\ load_header_ok(fs)
     /\ fs[1].header["version"].value # 1)
    => ret.outcome = "WrongFitsFileStructure"

AnyBad(dims) == \E r \in Roles : dims[r]

\* C6: a save_benchmark_images call with an array of the wrong dimensionality
\* raises and leaves the file at the target path as it was; a call whose
\* arrays all pass leaves the newly written 7-HDU file there, whether or not
\* a file was there before.
C6_SaveChecksBeforeWriting ==
    [][ret'.op = "save_benchmark_images" =>
        IF AnyBad(ret'.dims)
        THEN ret'.outcome = "Exception" /\ fs' = fs
        ELSE /\ ret'.outcome = "ok"
             /\ saved'.valid
             /\ Len(fs') = 7
             /\ \A r \in Roles : fs'[r].is_image /\ fs'[r].data = saved'.imgs[r]]_vars

C6_Witness ==
    /\ ret.op = "save_benchmark_images"
    /\ ret.outcome = "Exception"
    /\ fs # NoFile

\* C7: no handle opened by load_fits or load_benchmark_images is still open
\* when the call returns or raises.
C7_HandleClosedOnEveryExit ==
    (ret.op \in {"load_fits", "load_benchmark_images"} /\ ret.opened) => ret.closed

-----------------------------------------------------------------------------
(* Properties of simtel_event_to_images                                    *)

Tel1 == tel_event.tel[1]

\* the value the claim gives pixel p of the merged image
MergedPixel(t, p) ==
    IF SeqMax(t.r0_adc_samples[1][p]) >= 4095 THEN t.dl1_image[2][p] ELSE t.dl1_image[1][p]

MixedTwoChannels ==
    /\ image.outcome = "ok"
    /\ image.mix_channels
    /\ Tel1.cam_id \in {"ASTRICam", "NectarCam", "LSTCam"}

\* C8: with mix_channels on, every pixel of the image of a two-channel camera
\* holds its low-gain value when the high-gain peak is >= 4095 and its
\* high-gain value when the peak is < 4095.
C8_ChannelMerge ==
    MixedTwoChannels =>
        LET merged == [p \in Pixels |-> MergedPixel(Tel1, p)]
        IN image.image.input_image =
              IF image.ctapipe_format THEN merged ELSE image_1d_to_2d(merged, Tel1.cam_id)

C8_Witness ==
    /\ MixedTwoChannels
    /\ image.ctapipe_format
    /\ SeqMax(Tel1.r0_adc_samples[1][1]) = 4095
    /\ SeqMax(Tel1.r0_adc_samples[1][2]) = 4094
    /\ image.image.input_image[1] = Tel1.dl1_image[2][1]
    /\ image.image.input_image[2] = Tel1.dl1_image[1][2]
    /\ \A p \in Pixels : Tel1.dl1_image[1][p] # Tel1.dl1_image[2][p]

-----------------------------------------------------------------------------
(* Properties of simtel_images_generator                                   *)

RecognisedCams == {"CHEC", "DigiCam", "FlashCam", "ASTRICam", "NectarCam", "LSTCam"}

\* C9: a triggered telescope with an unrecognised camera yields no image, and
\* it does not abort the stream: the only error that ends the generator is
\* the one raised for its own arguments.
C9_UnknownCameraSkipped ==
    /\ \A i \in 1..Len(yielded) : yielded[i].meta.cam_id.v \in RecognisedCams
    /\ gen.status = "raised" => ~integrator_ok(gen.args.integrator)

\* the (event, triggered telescope) pairs of the file, in stream order
RECURSIVE PairsFrom(_, _)
PairsFrom(events, e) ==
    IF e > Len(events) THEN <<>>
    ELSE [t \in 1..Len(events[e].tels_with_trigger) |->
             <<events[e].event_id, events[e].tels_with_trigger[t]>>]
         \o PairsFrom(events, e + 1)

\* a pair the claim lets through: recognised camera, and in every given list
PairWanted(pair) ==
    /\ source.inst.cam_id[pair[2]] \in RecognisedCams
    /\ gen.args.ev_filter_list.is_none \/ pair[1] \in gen.args.ev_filter_list.items
    /\ gen.args.tel_filter_list.is_none \/ pair[2] \in gen.args.tel_filter_list.items
    /\ gen.args.cam_filter_list.is_none
          \/ source.inst.cam_id[pair[2]] \in gen.args.cam_filter_list.items

YieldedPairs ==
    [i \in 1..Len(yielded) |-> <<yielded[i].meta.event_id.v, yielded[i].meta.tel_id.v>>]

\* C10: a generator consumed to its end has yielded, in stream order, exactly
\* one image for every (event, triggered telescope) pair that has a recognised
\* camera and passes the given filters, each carrying the ids of its pair.
C10_YieldsExactlyFilteredPairs ==
    gen.status = "finished" => YieldedPairs = SelectSeq(PairsFrom(source.events, 1), PairWanted)

-----------------------------------------------------------------------------
(* File discovery: image_files_in_dir, image_files_in_paths                *)
(* A path or a file name is the sequence of its characters.                *)

MaxDirLen == 2     \* entries of the directory
MaxPaths == 2      \* entries of path_list
MaxCap == 2        \* largest max_num_files / max_num_images

UPPER ==
    <<"A", "B", "C", "D", "E", "F", "G", "H", "I", "J", "K", "L", "M",
      "N", "O", "P", "Q", "R", "S", "T", "U", "V", "W", "X", "Y", "Z">>
LOWER ==
    <<"a", "b", "c", "d", "e", "f", "g", "h", "i", "j", "k", "l", "m",
      "n", "o", "p", "q", "r", "s", "t", "u", "v", "w", "x", "y", "z">>

lower_char(c) ==
    IF \E k \in DOMAIN UPPER : UPPER[k] = c
    THEN LOWER[CHOOSE k \in DOMAIN UPPER : UPPER[k] = c]
    ELSE c

\* a lower() that leaves every letter as it is
lower_identity(s) == s

\* str.lower()
lower(s) == [k \in 1..Len(s) |-> lower_char(s[k])]

\* str.endswith(suffix)
endswith_one(s, suffix) ==
    /\ Len(suffix) <= Len(s)
    /\ SubSeq(s, Len(s) - Len(suffix) + 1, Len(s)) = suffix

\* str.endswith(tuple of suffixes)
endswith(s, suffixes) == \E k \in DOMAIN suffixes : endswith_one(s, suffixes[k])

FILE_EXT ==
    << <<".", "s", "i", "m", "t", "e", "l">>,
       <<".", "s", "i", "m", "t", "e", "l", ".", "g", "z">>,
       <<".", "f", "i", "t", "s">>,
       <<".", "f", "i", "t">> >>

HomeDir == <<"/", "h">>

\* os.path.expanduser: a leading ~ becomes the home directory
expanduser(path) ==
    IF path # <<>> /\ path[1] = "~" THEN HomeDir \o Tail(path) ELSE path

\* os.path.join(directory_path, file_name)
join(directory_path, file_name) == directory_path \o <<"/">> \o file_name

\* max_num_files / max_num_images: None, or a number
NoCap == [is_none |-> TRUE, n |-> 0]
Cap(n) == [is_none |-> FALSE, n |-> n]
Caps == {NoCap} \cup {Cap(n) : n \in 0..MaxCap}

\* the cap test with >= in place of >
over_cap_at(max_num_files, files_counter) ==
    ~max_num_files.is_none /\ files_counter >= max_num_files.n

\* (max_num_files is not None) and (files_counter > max_num_files)
over_cap(max_num_files, files_counter) ==
    ~max_num_files.is_none /\ files_counter > max_num_files.n

-----------------------------------------------------------------------------
(* The disk: two regular files, one directory and one path that is nothing *)

Entry(name, kind) == [name |-> name, kind |-> kind]

\* what os.listdir can find in the directory
DirEntries ==
    {Entry(<<"b", ".", "F", "I", "T", "S">>, "file"),
     Entry(<<"c", ".", "f", "i", "t">>, "file"),
     Entry(<<"s", ".", "S", "i", "m", "t", "e", "l">>, "file"),
     Entry(<<"g", ".", "s", "i", "m", "t", "e", "l", ".", "G", "Z">>, "file"),
     Entry(<<"n", ".", "t", "x", "t">>, "file"),
     Entry(<<"f", "i", "t", "s">>, "file"),
     Entry(<<"u", ".", "f", "i", "t", "s">>, "dir")}

\* listings without a repeated name, in any order
Listings ==
    {l \in UNION {[1..n -> DirEntries] : n \in 0..MaxDirLen} :
        \A a, b \in DOMAIN l : a # b => l[a] # l[b]}

DataDir == <<"~", "/", "d">>
TopFits == <<"a", ".", "f", "i", "t", "s">>
TopText == <<"r", ".", "t", "x", "t">>
Nowhere == <<"x">>

\* more regular files: two more benchmark files and two Simtel files
FitsB == <<"b", ".", "F", "I", "T">>
FitsV == <<"v", ".", "f", "i", "t", "s">>
SimS == <<"s", ".", "s", "i", "m", "t", "e", "l">>
SimT == <<"t", ".", "S", "I", "M", "T", "E", "L", ".", "g", "z">>
RegularFiles == {TopFits, TopText, FitsB, FitsV, SimS, SimT}

TopPaths == {DataDir, TopFits, TopText, Nowhere}
PathLists == UNION {[1..n -> TopPaths] : n \in 0..MaxPaths}

\* os.path.isdir, os.path.isfile, os.listdir on this disk
isdir(path) == path = expanduser(DataDir)
isfile(path) == path \in RegularFiles
listdir(listing) == [k \in DOMAIN listing |-> listing[k].name]
isfile_in(listing, file_name) ==
    \E k \in DOMAIN listing : listing[k].name = file_name /\ listing[k].kind = "file"

-----------------------------------------------------------------------------
(* The two generators, one next() at a time                                *)

WalkStep(kind, i, j, in_dir, files_counter, path) ==
    [kind |-> kind, i |-> i, j |-> j, in_dir |-> in_dir,
     files_counter |-> files_counter, path |-> path]

\* image_files_in_dir resumed after j entries of os.listdir: the loop runs to
\* the next yield, to the break or to the end of the listing
RECURSIVE dir_resume(_, _, _, _, _)
dir_resume(listing, directory_path, j, files_counter, max_num_files) ==
    IF j >= Len(listing) THEN WalkStep("end", 0, j, FALSE, files_counter, <<>>)
    ELSE LET file_name == listdir(listing)[j + 1]
         IN IF isfile_in(listing, file_name) /\ endswith(lower(file_name), FILE_EXT)
            THEN IF over_cap(max_num_files, files_counter + 1)
                 THEN WalkStep("end", 0, j + 1, FALSE, files_counter + 1, <<>>)
                 ELSE WalkStep("yield", 0, j + 1, FALSE, files_counter + 1,
                               join(directory_path, file_name))
            ELSE dir_resume(listing, directory_path, j + 1, files_counter, max_num_files)

\* image_files_in_paths resumed: i entries of path_list were taken; in_dir
\* says that entry i is a directory whose inner generator has consumed j
\* entries. A break in the inner loop leaves only the inner loop.
RECURSIVE paths_resume(_, _, _, _, _, _, _)
paths_resume(listing, path_list, i, j, in_dir, files_counter, max_num_files) ==
    IF in_dir
    THEN LET inner == dir_resume(listing, expanduser(path_list[i]), j, 0, NoCap)
         IN IF inner.kind = "end"
            THEN paths_resume(listing, path_list, i, 0, FALSE, files_counter, max_num_files)
            ELSE IF over_cap(max_num_files, files_counter + 1)
            THEN paths_resume(listing, path_list, i, 0, FALSE, files_counter + 1, max_num_files)
            ELSE WalkStep("yield", i, inner.j, TRUE, files_counter + 1, inner.path)
    ELSE IF i >= Len(path_list) THEN WalkStep("end", i, 0, FALSE, files_counter, <<>>)
    ELSE LET path == expanduser(path_list[i + 1])
         IN IF isdir(path)
            THEN paths_resume(listing, path_list, i + 1, 0, TRUE, files_counter, max_num_files)
            ELSE IF isfile(path)
            THEN IF over_cap(max_num_files, files_counter + 1)
                 THEN WalkStep("end", i + 1, 0, FALSE, files_counter + 1, <<>>)
                 ELSE WalkStep("yield", i + 1, 0, FALSE, files_counter + 1, path)
            ELSE WalkStep("raise", i + 1, 0, FALSE, files_counter, path)

\* out: the paths yielded so far; at: the entry of path_list each came from
NoWalk ==
    [op |-> "", status |-> "none", path_list |-> <<>>, max_num_files |-> NoCap,
     i |-> 0, j |-> 0, in_dir |-> FALSE, files_counter |-> 0, out |-> <<>>, at |-> <<>>]

InitWalk ==
    /\ pixels = <<>>
    /\ dl1_integration_correction = <<>>
    /\ gens = <<>>
    /\ stats = <<>>
    /\ disk \in Listings
    /\ walk = NoWalk
    /\ fs = NoFile
    /\ open_handles = 0
    /\ saved = NotSaved
    /\ ret = NoCall
    /\ tel_event = <<>>
    /\ image = <<>>
    /\ source = <<>>
    /\ gen = <<>>
    /\ yielded = <<>>
    /\ close_calls = 0
    /\ batch = <<>>
    /\ job = <<>>

\* image_files_in_dir(directory_path, max_num_files): the generator object
Call_image_files_in_dir ==
    /\ walk.status = "none"
    /\ \E max_num_files \in Caps :
          walk' = [NoWalk EXCEPT !.op = "image_files_in_dir", !.status = "suspended",
                                 !.path_list = <<DataDir>>, !.max_num_files = max_num_files]
    /\ UNCHANGED disk

\* image_files_in_paths(path_list, max_num_files): the generator object
Call_image_files_in_paths ==
    /\ walk.status = "none"
    /\ \E path_list \in PathLists, max_num_files \in Caps :
          walk' = [NoWalk EXCEPT !.op = "image_files_in_paths", !.status = "suspended",
                                 !.path_list = path_list, !.max_num_files = max_num_files]
    /\ UNCHANGED disk

walk_resume ==
    IF walk.op = "image_files_in_dir"
    THEN dir_resume(disk, expanduser(walk.path_list[1]), walk.j, walk.files_counter,
                    walk.max_num_files)
    ELSE paths_resume(disk, walk.path_list, walk.i, walk.j, walk.in_dir,
                      walk.files_counter, walk.max_num_files)

\* next() on the generator: a path is yielded
Next_path_yields ==
    /\ walk.status = "suspended"
    /\ LET r == walk_resume
       IN /\ r.kind = "yield"
          /\ walk' = [walk EXCEPT !.i = r.i, !.j = r.j, !.in_dir = r.in_dir,
                                  !.files_counter = r.files_counter,
                                  !.out = Append(walk.out, r.path),
                                  !.at = Append(walk.at, r.i)]
    /\ UNCHANGED disk

\* next() on the generator: StopIteration, or Exception("Wrong item:", path)
Next_path_stops ==
    /\ walk.status = "suspended"
    /\ LET r == walk_resume
       IN /\ r.kind # "yield"
          /\ walk' = [walk EXCEPT !.i = r.i, !.j = r.j, !.in_dir = r.in_dir,
                                  !.files_counter = r.files_counter,
                                  !.status = IF r.kind = "end" THEN "finished" ELSE "raised"]
    /\ UNCHANGED disk

NextWalk ==
    \/ Call_image_files_in_dir /\ UNCHANGED <<fits_vars, image_vars, gen_vars, batch_vars, main_vars, pixel_vars, calib_vars, stats_vars>>
    \/ Call_image_files_in_paths /\ UNCHANGED <<fits_vars, image_vars, gen_vars, batch_vars, main_vars, pixel_vars, calib_vars, stats_vars>>
    \/ Next_path_yields /\ UNCHANGED <<fits_vars, image_vars, gen_vars, batch_vars, main_vars, pixel_vars, calib_vars, stats_vars>>
    \/ Next_path_stops /\ UNCHANGED <<fits_vars, image_vars, gen_vars, batch_vars, main_vars, pixel_vars, calib_vars, stats_vars>>

SpecWalk == InitWalk /\ [][NextWalk]_vars

-----------------------------------------------------------------------------
(* Properties of the file discovery                                        *)

\* the names of DirEntries with an extension of the allow-list, written out
MatchingNames ==
    {<<"b", ".", "F", "I", "T", "S">>, <<"c", ".", "f", "i", "t">>,
     <<"s", ".", "S", "i", "m", "t", "e", "l">>,
     <<"g", ".", "s", "i", "m", "t", "e", "l", ".", "G", "Z">>}

IsMatch(entry) == entry.kind = "file" /\ entry.name \in MatchingNames

\* the paths of the matching regular files of the directory, in listing order
MatchingPaths ==
    LET hits == SelectSeq(disk, IsMatch)
    IN [k \in DOMAIN hits |-> HomeDir \o <<"/", "d", "/">> \o hits[k].name]

Min(a, b) == IF a <= b THEN a ELSE b

WalkDone == walk.status \in {"finished", "raised"}

\* C14: image_files_in_dir without a cap yields exactly the immediate
\* children that are regular files with an allow-listed extension in any
\* letter case, each once: no sub-directory, no other extension.
C14_DirYieldsExactlyMatching ==
    (walk.op = "image_files_in_dir" /\ walk.max_num_files.is_none) =>
        /\ walk.status # "raised"
        /\ walk.status = "finished" => walk.out = MatchingPaths
        /\ \A k \in DOMAIN walk.out : walk.out[k] = MatchingPaths[k]

C14_Witness ==
    /\ walk.op = "image_files_in_dir" /\ walk.max_num_files.is_none
    /\ walk.status = "finished"
    /\ walk.out = << HomeDir \o <<"/", "d", "/", "b", ".", "F", "I", "T", "S">> >>
    /\ Len(disk) = MaxDirLen

\* every path image_files_in_paths yields on its way, run to its end
RECURSIVE paths_run(_, _, _, _, _, _, _)
paths_run(listing, path_list, i, j, in_dir, files_counter, max_num_files) ==
    LET r == paths_resume(listing, path_list, i, j, in_dir, files_counter, max_num_files)
    IN IF r.kind = "yield"
       THEN <<r.path>> \o paths_run(listing, path_list, r.i, r.j, r.in_dir,
                                    r.files_counter, max_num_files)
       ELSE <<>>

\* C15: with a limit N, image_files_in_dir yields min(N, matching files)
\* paths and image_files_in_paths yields min(N, paths yielded without a
\* limit) paths; N = 0 yields none.
C15_CapBoundsTheCount ==
    (WalkDone /\ ~walk.max_num_files.is_none) =>
        IF walk.op = "image_files_in_dir"
        THEN Len(walk.out) = Min(walk.max_num_files.n, Len(MatchingPaths))
        ELSE Len(walk.out) =
                Min(walk.max_num_files.n,
                    Len(paths_run(disk, walk.path_list, 0, 0, FALSE, 0, NoCap)))

C15_Witness ==
    /\ walk.op = "image_files_in_paths" /\ walk.status = "finished"
    /\ walk.max_num_files = Cap(1)
    /\ walk.path_list = <<TopFits, DataDir>>
    /\ Len(MatchingPaths) = MaxDirLen
    /\ Len(walk.out) = 1

AllowedExt(path) == endswith(lower(path), FILE_EXT)

\* C16: every path image_files_in_paths yields has an extension of the
\* allow-list, also a regular file listed directly in path_list.
C16_YieldedPathsHaveAllowedExt ==
    walk.op = "image_files_in_paths" => \A k \in DOMAIN walk.out : AllowedExt(walk.out[k])

CapReached ==
    /\ walk.op = "image_files_in_paths"
    /\ ~walk.max_num_files.is_none
    /\ walk.max_num_files.n >= 1
    /\ Len(walk.out) = walk.max_num_files.n

\* C17: once image_files_in_paths has yielded max_num_files paths the
\* enumeration stops: no later entry of path_list is examined and a later
\* entry that is neither a file nor a directory raises no error.
C17_CapStopsEnumeration ==
    CapReached =>
        /\ walk.status # "raised"
        /\ walk.i = walk.at[walk.max_num_files.n]

\* C18: when path_list holds an entry that is neither a file nor a directory,
\* the discovery (here without a cap) fails with the invalid-path error
\* before anything else happens: no path is yielded, and it never ends well.
C18_InvalidPathFailsFirst ==
    (/\ walk.op = "image_files_in_paths"
     /\ walk.max_num_files.is_none
     /\ \E k \in DOMAIN walk.path_list : walk.path_list[k] = Nowhere)
        => /\ walk.out = <<>>
           /\ walk.status # "finished"

-----------------------------------------------------------------------------
(* image_generator                                                         *)

SIMTEL_EXT ==
    << <<".", "s", "i", "m", "t", "e", "l">>,
       <<".", "s", "i", "m", "t", "e", "l", ".", "g", "z">> >>
FITS_EXT == << <<".", "f", "i", "t", "s">>, <<".", "f", "i", "t">> >>

\* a benchmark file of 7 image HDUs taken by telescope tel_id, whose header
\* says the given version
LibraryFits(tel_id, version) ==
    [k \in Roles |->
        Hdu(TRUE, Array(RoleNdim[k], <<k, k>>),
            IF k = 1
            THEN save_header(<<>>, header_meta([SampleMeta EXCEPT !.tel_id = Scalar(tel_id)],
                                               version))
            ELSE <<>>)]

LibrarySimtel(path, trig) ==
    [path |-> path, inst |-> MakeInst([t \in Tels |-> GenCamOf(t)]),
     events |-> [k \in DOMAIN trig |-> GenEvent(k, trig[k])]]

\* what is stored at each regular file: v.fits has an unknown version; in
\* s.simtel telescope 2 has a camera this module does not know
Library(path) ==
    IF path = TopFits THEN LibraryFits(1, 1)
    ELSE IF path = FitsB THEN LibraryFits(2, 1)
    ELSE IF path = FitsV THEN LibraryFits(1, 2)
    ELSE IF path = SimS THEN LibrarySimtel(path, << <<1, 2>>, <<1>> >>)
    ELSE IF path = SimT THEN LibrarySimtel(path, << <<1>> >>)
    ELSE NoFile

\* what the consumer sees of a yielded image
ImageTag(path, tel_id, event_id, cam_id) ==
    [path |-> path, tel_id |-> tel_id, event_id |-> event_id, cam_id |-> cam_id]

NoSub == [active |-> FALSE, e |-> 0, t |-> 0]
Sub(e, t) == [active |-> TRUE, e |-> e, t |-> t]

\* the frame of image_generator: wi and wcount belong to its
\* image_files_in_paths generator, sub to the simtel_images_generator of the
\* current file; opened lists the Simtel streams started and closes counts
\* the pyhessio.close_file() calls made for each
NoBatch ==
    [status |-> "none", error |-> "", path_list |-> <<>>, max_num_images |-> NoCap,
     args |-> GenArgs(NoneList, NoneList, NoneList, FALSE, TRUE, "LocalPeakIntegrator"),
     wi |-> 0, wcount |-> 0, file |-> <<>>, sub |-> NoSub, images_counter |-> 0,
     out |-> <<>>, opened |-> <<>>, closes |-> <<>>, loaded |-> <<>>]

\* the test of lines 346-348 without the pyhessio.close_file() call
close_on_break_skipped(closes) == closes

\* pyhessio.close_file() for the stream being read
close_file(closes) == [closes EXCEPT ![Len(closes)] = @ + 1]

\* line 347: pyhessio.close_file() before the break
close_on_break(closes) == close_file(closes)

\* the cap test with > in place of >=
images_over_cap_late(max_num_images, images_counter) ==
    ~max_num_images.is_none /\ images_counter > max_num_images.n

\* (max_num_images is not None) and (images_counter >= max_num_images)
images_over_cap(max_num_images, images_counter) ==
    ~max_num_images.is_none /\ images_counter >= max_num_images.n

Raised(b, error) == [b EXCEPT !.status = "raised", !.error = error]

\* the three filter tests on the metadata of a FITS file
fits_filters_pass(args, metadata) ==
    /\ filter_pass(args.tel_filter_list, metadata["tel_id"])
    /\ filter_pass(args.ev_filter_list, metadata["event_id"])
    /\ filter_pass(args.cam_filter_list, metadata["cam_id"])

\* next() on image_generator: the body runs to its next yield, to the end,
\* or to an error, which nothing in the body catches
RECURSIVE batch_resume(_, _)
batch_resume(listing, b) ==
    IF b.sub.active
    THEN LET r == gen_resume(Library(b.file), b.args, b.sub.e, b.sub.t)
         IN IF r.kind = "end"
            THEN batch_resume(listing, [b EXCEPT !.sub = NoSub, !.closes = close_file(@)])
            ELSE IF images_over_cap(b.max_num_images, b.images_counter)
            THEN batch_resume(listing, [b EXCEPT !.sub = NoSub, !.closes = close_on_break(@)])
            ELSE [b EXCEPT !.status = "suspended", !.sub = Sub(r.e, r.t),
                           !.images_counter = @ + 1,
                           !.out = Append(@, ImageTag(b.file, r.image.meta.tel_id.v,
                                                      r.image.meta.event_id.v,
                                                      r.image.meta.cam_id.v))]
    ELSE LET w == paths_resume(listing, b.path_list, b.wi, 0, FALSE, b.wcount, NoCap)
             b1 == [b EXCEPT !.wi = w.i, !.wcount = w.files_counter]
         IN IF w.kind = "end" THEN [b1 EXCEPT !.status = "finished"]
            ELSE IF w.kind = "raise" THEN Raised(b1, "Exception: Wrong item")
            ELSE IF images_over_cap(b.max_num_images, b.images_counter)
            THEN [b1 EXCEPT !.status = "finished"]
            ELSE IF endswith(lower(w.path), SIMTEL_EXT)
            THEN IF ~integrator_ok(b.args.integrator)
                 THEN Raised(b1, "ValueError")
                 ELSE batch_resume(listing,
                          [b1 EXCEPT !.file = w.path, !.sub = Sub(1, 0),
                                     !.opened = Append(@, w.path), !.closes = Append(@, 0)])
            ELSE IF endswith(lower(w.path), FITS_EXT)
            THEN LET r == load_benchmark_images(Library(w.path), w.path)
                     b2 == [b1 EXCEPT !.loaded = Append(@, w.path)]
                 IN IF r.outcome = "Exception"
                    THEN Raised(b2, "Exception: Unknown version number")
                    ELSE IF r.outcome # "ok" THEN Raised(b2, r.outcome)
                    ELSE IF fits_filters_pass(b.args, r.meta)
                    THEN [b2 EXCEPT !.status = "suspended", !.images_counter = @ + 1,
                                    !.out = Append(@, ImageTag(w.path, r.meta["tel_id"],
                                                               r.meta["event_id"],
                                                               r.meta["cam_id"]))]
                    ELSE batch_resume(listing, b2)
            ELSE Raised(b1, "Exception: Wrong item")

-----------------------------------------------------------------------------
(* The calls of image_generator the model tries                            *)

BatchPaths == RegularFiles \cup {Nowhere}
BatchPathLists == UNION {[1..n -> BatchPaths] : n \in 0..MaxPaths}

\* keyword arguments handed on to simtel_images_generator: the defaults, the
\* ctapipe format without channel mixing, an integrator name nobody knows
BatchKwargs ==
    {[ctapipe_format |-> FALSE, mix_channels |-> TRUE, integrator |-> "LocalPeakIntegrator"],
     [ctapipe_format |-> TRUE, mix_channels |-> FALSE, integrator |-> "LocalPeakIntegrator"],
     [ctapipe_format |-> FALSE, mix_channels |-> TRUE, integrator |-> "TwoPassIntegrator"]}

BatchArgChoices ==
    {GenArgs(tf, ef, cf, kw.ctapipe_format, kw.mix_channels, kw.integrator) :
        tf \in {NoneList, ListOf({1})}, ef \in {NoneList, ListOf({2})},
        cf \in {NoneList, ListOf({"LSTCam"})}, kw \in BatchKwargs}

InitBatch ==
    /\ pixels = <<>>
    /\ dl1_integration_correction = <<>>
    /\ gens = <<>>
    /\ stats = <<>>
    /\ batch = NoBatch
    /\ disk = <<>>
    /\ walk = <<>>
    /\ fs = NoFile
    /\ open_handles = 0
    /\ saved = NotSaved
    /\ ret = NoCall
    /\ tel_event = <<>>
    /\ image = <<>>
    /\ source = <<>>
    /\ gen = <<>>
    /\ yielded = <<>>
    /\ close_calls = 0
    /\ job = <<>>

\* image_generator(path_list, max_num_images, ...): the generator object
Call_image_generator ==
    /\ batch.status = "none"
    /\ \E path_list \in BatchPathLists, max_num_images \in Caps, args \in BatchArgChoices :
          batch' = [NoBatch EXCEPT !.status = "suspended", !.path_list = path_list,
                                   !.max_num_images = max_num_images, !.args = args]

\* next() on image_generator: an image is yielded
Next_image_yields ==
    /\ batch.status = "suspended"
    /\ batch_resume(disk, batch).status = "suspended"
    /\ batch' = batch_resume(disk, batch)

\* next() on image_generator: StopIteration, or an error comes out
Next_image_stops ==
    /\ batch.status = "suspended"
    /\ batch_resume(disk, batch).status # "suspended"
    /\ batch' = batch_resume(disk, batch)

NextBatch ==
    \/ Call_image_generator /\ UNCHANGED <<fits_vars, image_vars, gen_vars, walk_vars, main_vars, pixel_vars, calib_vars, stats_vars>>
    \/ Next_image_yields /\ UNCHANGED <<fits_vars, image_vars, gen_vars, walk_vars, main_vars, pixel_vars, calib_vars, stats_vars>>
    \/ Next_image_stops /\ UNCHANGED <<fits_vars, image_vars, gen_vars, walk_vars, main_vars, pixel_vars, calib_vars, stats_vars>>

SpecBatch == InitBatch /\ [][NextBatch]_vars

-----------------------------------------------------------------------------
(* Properties of image_generator                                           *)

BatchDone == batch.status \in {"finished", "raised"}

\* the images image_generator yields from frame b on, run to its end
RECURSIVE batch_run(_, _)
batch_run(listing, b) ==
    LET b1 == batch_resume(listing, b)
    IN IF b1.status = "suspended" THEN batch_run(listing, b1) ELSE b1.out

\* the same call without max_num_images
Uncapped ==
    batch_run(disk, [NoBatch EXCEPT !.status = "suspended", !.path_list = batch.path_list,
                                    !.args = batch.args])

\* C11: image_generator with max_num_images = N yields exactly min(N, M)
\* images, M being the number of images the files give after the filters
\* (what the same call yields without a cap); they are the first ones, and
\* the count never passes N on the way.
C11_YieldsMinOfCapAndTotal ==
    (batch.status # "none" /\ ~batch.max_num_images.is_none) =>
        /\ Len(batch.out) <= batch.max_num_images.n
        /\ BatchDone =>
              /\ Len(batch.out) = Min(batch.max_num_images.n, Len(Uncapped))
              /\ batch.out = SubSeq(Uncapped, 1, Len(batch.out))

\* the cap is reached in the middle of the second file, after a FITS file
C11_Witness ==
    /\ batch.status = "finished"
    /\ batch.max_num_images = Cap(2)
    /\ batch.path_list = <<FitsB, SimS>>
    /\ Len(Uncapped) = 3
    /\ batch.out = <<ImageTag(FitsB, 2, 1, "FlashCam"), ImageTag(SimS, 1, 1, "LSTCam")>>

\* C12: when a run of image_generator is over, pyhessio.close_file() has
\* been called exactly once for every Simtel file whose stream was started,
\* whether the stream ran out or max_num_images stopped it; and no call is
\* made for a file before its stream is left.
C12_CloseFileOncePerSimtelFile ==
    /\ batch.status # "none" =>
          \A k \in DOMAIN batch.closes :
              batch.closes[k] = IF k = Len(batch.closes) /\ batch.sub.active THEN 0 ELSE 1
    /\ BatchDone => ~batch.sub.active

\* one stream left by the cap, in the middle of s.simtel
C12_Witness ==
    /\ batch.status = "finished"
    /\ batch.max_num_images = Cap(1)
    /\ batch.path_list = <<SimS, SimT>>
    /\ batch.args.tel_filter_list.is_none /\ batch.args.ev_filter_list.is_none
    /\ batch.opened = <<SimS>>
    /\ batch.closes = <<1>>

UnsupportedInput == {"Exception: Unknown version number", "ValueError"}

\* C13: an item that triggers an unsupported-input error (unknown FITS
\* version, unknown integrator name) is skipped: no run of image_generator
\* ends with that error.
C13_UnsupportedInputSkipped ==
    batch.status = "raised" => batch.error \notin UnsupportedInput

-----------------------------------------------------------------------------
(* The batch driver: main() of datapipe/denoising/null.py                  *)

\* a denoiser that clears what it is given
null_cleared(img) == [r \in 1..Len(img) |-> [c \in 1..Len(img[r]) |-> 0]]

\* the "null" algorithm
null(img) == img

\* images.load(input_file_path, hdu_index): datapipe/io/images.py defines
\* load_fits and load_benchmark_images but no attribute named load, so the
\* call raises AttributeError whatever the file is
images_load(input_file_path, hdu_index) ==
    [outcome |-> "AttributeError", array |-> NoArray]

\* --benchmark and --output: None, or a string
NoOption == [is_none |-> TRUE, value |-> ""]
Option(value) == [is_none |-> FALSE, value |-> value]

DriverDir == expanduser(DataDir)

\* lines 83-90: the files of one command line argument; a directory gives
\* its regular files whose lower-cased path ends with .fits
RECURSIVE dir_fits_files(_, _, _)
dir_fits_files(listing, directory_path, k) ==
    IF k > Len(listing) THEN <<>>
    ELSE LET dir_item == listdir(listing)[k]
             dir_item_path == join(directory_path, dir_item)
         IN (IF /\ endswith_one(lower(dir_item_path), <<".", "f", "i", "t", "s">>)
                /\ isfile_in(listing, dir_item)
             THEN <<dir_item_path>> ELSE <<>>)
            \o dir_fits_files(listing, directory_path, k + 1)

resolve_argument(listing, input_file_or_dir_path) ==
    IF isdir(input_file_or_dir_path)
    THEN dir_fits_files(listing, input_file_or_dir_path, 1)
    ELSE <<input_file_or_dir_path>>

\* the run: a arguments taken, f files of input_file_path_list taken; done
\* lists the files whose processing was started; assess holds what
\* assess.assess_image_cleaning would do with each file; reports lists the
\* JSON files written
NoJob ==
    [status |-> "none", error |-> "", benchmark_method |-> NoOption, hdu_index |-> 0,
     output |-> NoOption, fileargs |-> <<>>, assess |-> <<>>, a |-> 0,
     input_file_path_list |-> <<>>, f |-> 0, done |-> <<>>,
     file_path_list |-> <<>>, score_list |-> <<>>, execution_time_list |-> <<>>,
     reports |-> <<>>]

Crashed(j, error) == [j EXCEPT !.status = "raised", !.error = error]

AssessOutcomes == {"score", "EmptyReferenceImageError", "EmptyOutputImageError"}

assess_of(j, input_file_path) ==
    IF input_file_path \in DOMAIN j.assess THEN j.assess[input_file_path] ELSE "score"

\* lines 117-136: plot, or assess and record; the two Empty... errors are
\* caught, any other error comes out
assess_or_plot(j, input_file_path) ==
    IF j.benchmark_method.is_none THEN j
    ELSE IF assess_of(j, input_file_path) = "score"
    THEN [j EXCEPT !.file_path_list = Append(@, input_file_path),
                   !.score_list = Append(@, input_file_path),
                   !.execution_time_list = Append(@, input_file_path)]
    ELSE j

\* lines 92-136 for one file
process_file(j, input_file_path) ==
    LET input_img == images_load(input_file_path, j.hdu_index)
        j1 == [j EXCEPT !.f = @ + 1, !.done = Append(@, input_file_path)]
    IN IF input_img.outcome # "ok" THEN Crashed(j1, input_img.outcome)
       ELSE IF input_img.array.ndim # 2 THEN Crashed(j1, "Exception")
       ELSE LET cleaned_img == null(input_img.array)
                reference_img == images_load(input_file_path, 1)
            IN IF reference_img.outcome # "ok" THEN Crashed(j1, reference_img.outcome)
               ELSE assess_or_plot(j1, input_file_path)

\* lines 141-160: the report object and the file it goes to
output_dict(j) ==
    [label |-> "Null", benchmark_method |-> j.benchmark_method.value,
     hdu_index |-> j.hdu_index, input_file_path_list |-> j.file_path_list,
     score_list |-> j.score_list, execution_time_list |-> j.execution_time_list,
     output_file_path |->
        IF j.output.is_none
        THEN <<"score_null_benchmark_", j.benchmark_method.value, ".json">>
        ELSE <<j.output.value>>]

-----------------------------------------------------------------------------
(* The runs of the driver the model tries                                  *)

DriverArgs == {TopFits, FitsB, DriverDir, Nowhere}
DriverArgLists == UNION {[1..n -> DriverArgs] : n \in 1..MaxPaths}

InitMain ==
    /\ pixels = <<>>
    /\ dl1_integration_correction = <<>>
    /\ gens = <<>>
    /\ stats = <<>>
    /\ disk \in Listings
    /\ job = NoJob
    /\ walk = <<>>
    /\ batch = <<>>
    /\ fs = NoFile
    /\ open_handles = 0
    /\ saved = NotSaved
    /\ ret = NoCall
    /\ tel_event = <<>>
    /\ image = <<>>
    /\ source = <<>>
    /\ gen = <<>>
    /\ yielded = <<>>
    /\ close_calls = 0

\* lines 70-79: the options are parsed, the three lists are made
Main_starts ==
    /\ job.status = "none"
    /\ \E benchmark_method \in {NoOption, Option("mse")}, output \in {NoOption, Option("out.json")},
          hdu_index \in {0}, fileargs \in DriverArgLists,
          assess \in [{TopFits} -> AssessOutcomes] :
          job' = [NoJob EXCEPT !.status = "running", !.benchmark_method = benchmark_method,
                               !.output = output, !.hdu_index = hdu_index,
                               !.fileargs = fileargs, !.assess = assess]
    /\ UNCHANGED disk

\* lines 81-90: the next argument is turned into its list of files
Main_next_argument ==
    /\ job.status = "running"
    /\ job.f >= Len(job.input_file_path_list)
    /\ job.a < Len(job.fileargs)
    /\ job' = [job EXCEPT !.a = @ + 1, !.f = 0,
                          !.input_file_path_list = resolve_argument(disk, job.fileargs[job.a + 1])]
    /\ UNCHANGED disk

\* lines 92-136: the next file of the list is processed
Main_process_file ==
    /\ job.status = "running"
    /\ job.f < Len(job.input_file_path_list)
    /\ job' = process_file(job, job.input_file_path_list[job.f + 1])
    /\ UNCHANGED disk

\* lines 138-160: every argument is consumed; the report is written when a
\* benchmark method was asked for
Main_ends ==
    /\ job.status = "running"
    /\ job.f >= Len(job.input_file_path_list)
    /\ job.a >= Len(job.fileargs)
    /\ job' = [job EXCEPT !.status = "finished",
                          !.reports = IF job.benchmark_method.is_none THEN @
                                      ELSE Append(@, output_dict(job))]
    /\ UNCHANGED disk

NextMain ==
    \/ Main_starts /\ UNCHANGED <<fits_vars, image_vars, gen_vars, batch_vars, walk, pixel_vars, calib_vars, stats_vars>>
    \/ Main_next_argument /\ UNCHANGED <<fits_vars, image_vars, gen_vars, batch_vars, walk, pixel_vars, calib_vars, stats_vars>>
    \/ Main_process_file /\ UNCHANGED <<fits_vars, image_vars, gen_vars, batch_vars, walk, pixel_vars, calib_vars, stats_vars>>
    \/ Main_ends /\ UNCHANGED <<fits_vars, image_vars, gen_vars, batch_vars, walk, pixel_vars, calib_vars, stats_vars>>

SpecMain == InitMain /\ [][NextMain]_vars

-----------------------------------------------------------------------------
(* Properties of the batch driver                                          *)

\* a file load_fits reads as a 2-D image at this HDU index
Loadable2D(path, hdu_index) ==
    /\ load_fits(Library(path), hdu_index).outcome = "ok"
    /\ load_fits(Library(path), hdu_index).array.ndim = 2

\* every file this run has to process is a FITS file with 2-D images at the
\* HDU asked for and at HDU 1
AllFilesGood ==
    \A k \in DOMAIN job.fileargs :
        /\ job.fileargs[k] \in {TopFits, FitsB}
        /\ Loadable2D(job.fileargs[k], job.hdu_index)
        /\ Loadable2D(job.fileargs[k], 1)

Scored(path) == assess_of(job, path) = "score"

\* C19: in benchmark mode a file whose assessment raises
\* EmptyReferenceImageError or EmptyOutputImageError adds no entry and the
\* driver goes on; every other file adds one entry to each of the three
\* sequences, in processing order: N files of which k are degenerate leave
\* sequences of length N - k.
C19_DegenerateFilesSkipped ==
    (job.status # "none" /\ ~job.benchmark_method.is_none /\ AllFilesGood) =>
        /\ job.status # "raised"
        /\ job.file_path_list = SelectSeq(job.done, Scored)
        /\ job.score_list = SelectSeq(job.done, Scored)
        /\ job.execution_time_list = SelectSeq(job.done, Scored)

JobOver == job.status \in {"finished", "raised"}

-----------------------------------------------------------------------------
(* Pixel arrays: null (datapipe/denoising/null.py) and fill_nan_pixels     *)

MaxRows == 2
MaxCols == 2

\* the pixel values the model tries: blank, empty and lit
PixelValues == {NaN, 0, 1}

\* the 2-D arrays of every shape up to MaxRows x MaxCols
PixelArrays ==
    UNION {[1..r -> [1..c -> PixelValues]] : r \in 1..MaxRows, c \in 1..MaxCols}

\* image.shape
shape(a) == <<Len(a), Len(a[1])>>

\* np.isnan(image)
isnan(a) == [r \in 1..Len(a) |-> [c \in 1..Len(a[r]) |-> a[r][c] = NaN]]

\* np.count_nonzero(nan_mask)
RECURSIVE count_nonzero_from(_, _, _)
count_nonzero_from(mask, r, c) ==
    IF r > Len(mask) THEN 0
    ELSE IF c > Len(mask[r]) THEN count_nonzero_from(mask, r + 1, 1)
    ELSE (IF mask[r][c] THEN 1 ELSE 0) + count_nonzero_from(mask, r, c + 1)
count_nonzero(mask) == count_nonzero_from(mask, 1, 1)

\* noise_distribution: None, or the values rvs(size) draws, in order
NoNoise == [is_none |-> TRUE, rvs |-> <<>>]
Noise(rvs) == [is_none |-> FALSE, rvs |-> rvs]

\* image[nan_mask] = values: the masked pixels are written in row-major
\* order, a scalar being written to each of them
masked_assign(a, mask, is_scalar, values) ==
    [r \in 1..Len(a) |-> [c \in 1..Len(a[r]) |->
        IF ~mask[r][c] THEN a[r][c]
        ELSE IF is_scalar THEN values
        ELSE values[count_nonzero_from(mask, 1, 1) - count_nonzero_from(mask, r, c) + 1]]]

\* a slip in the order: the mask taken after the pixels are filled
fill_nan_pixels_mask_after(img, noise_distribution) ==
    LET nan_mask == isnan(img)
        filled == IF ~noise_distribution.is_none
                  THEN masked_assign(img, nan_mask, FALSE, noise_distribution.rvs)
                  ELSE masked_assign(img, nan_mask, TRUE, 0)
    IN [image |-> filled, nan_mask |-> isnan(filled)]

\* the whole call: the array of the caller afterwards, and the mask returned
fill_nan_pixels(img, noise_distribution) ==
    LET nan_mask == isnan(img)
    IN [image |-> IF ~noise_distribution.is_none
                  THEN masked_assign(img, nan_mask, FALSE, noise_distribution.rvs)
                  ELSE masked_assign(img, nan_mask, TRUE, 0),
        nan_mask |-> nan_mask]

NoPixelCall == "none"

InitPixels ==
    /\ pixels \in {[op |-> NoPixelCall, before |-> a, image |-> a, result |-> a, noise |-> FALSE] :
                      a \in PixelArrays}
    /\ dl1_integration_correction = <<>>
    /\ gens = <<>>
    /\ stats = <<>>
    /\ fs = NoFile
    /\ open_handles = 0
    /\ saved = NotSaved
    /\ ret = NoCall
    /\ tel_event = <<>>
    /\ image = <<>>
    /\ source = <<>>
    /\ gen = <<>>
    /\ yielded = <<>>
    /\ close_calls = 0
    /\ disk = <<>>
    /\ walk = <<>>
    /\ batch = <<>>
    /\ job = <<>>

\* cleaned_img = null(input_img): the argument is not written to
Call_null ==
    pixels' = [op |-> "null", before |-> pixels.image, image |-> pixels.image,
               result |-> null(pixels.image), noise |-> FALSE]

\* fill_nan_pixels(image): the array is filled in place, the mask returned
Call_fill_nan_pixels ==
    LET out == fill_nan_pixels(pixels.image, NoNoise)
    IN pixels' = [op |-> "fill_nan_pixels", before |-> pixels.image, image |-> out.image,
                  result |-> out.nan_mask, noise |-> FALSE]

\* fill_nan_pixels(image, noise_distribution): one draw per blank pixel; the
\* draws the model tries are the same value v for every pixel
Call_fill_nan_pixels_with_noise ==
    \E v \in PixelValues \ {NaN} :
        LET rvs == [i \in 1..count_nonzero(isnan(pixels.image)) |-> v]
            out == fill_nan_pixels(pixels.image, Noise(rvs))
        IN pixels' = [op |-> "fill_nan_pixels", before |-> pixels.image, image |-> out.image,
                      result |-> out.nan_mask, noise |-> TRUE]

NextPixels ==
    \/ Call_null /\ UNCHANGED <<fits_vars, image_vars, gen_vars, walk_vars, batch_vars, main_vars, calib_vars, stats_vars>>
    \/ Call_fill_nan_pixels /\ UNCHANGED <<fits_vars, image_vars, gen_vars, walk_vars, batch_vars, main_vars, calib_vars, stats_vars>>
    \/ Call_fill_nan_pixels_with_noise /\ UNCHANGED <<fits_vars, image_vars, gen_vars, walk_vars, batch_vars, main_vars, calib_vars, stats_vars>>

SpecPixels == InitPixels /\ [][NextPixels]_vars

-----------------------------------------------------------------------------
(* Properties of null and fill_nan_pixels                                  *)

\* C21: null returns its argument as it is, shape and values, leaves the
\* argument as it was, and applying it to its own result changes nothing.
C21_NullIsIdentity ==
    pixels.op = "null" =>
        /\ pixels.result = pixels.before
        /\ shape(pixels.result) = shape(pixels.before)
        /\ pixels.image = pixels.before
        /\ null(pixels.result) = pixels.result

\* null has been applied to an image with a blank and a lit pixel
C21_Witness ==
    /\ pixels.op = "null"
    /\ \E r \in 1..Len(pixels.before) : \E c \in 1..Len(pixels.before[r]) :
          pixels.before[r][c] = NaN
    /\ \E r \in 1..Len(pixels.before) : \E c \in 1..Len(pixels.before[r]) :
          pixels.before[r][c] = 1
    /\ pixels.result = pixels.before

\* C28: without a noise distribution, fill_nan_pixels writes 0 to the NaN
\* pixels and leaves the others and the shape alone; the mask it returns has
\* the shape of the image and is True exactly at the pixels that were NaN; a
\* second call on the filled image returns an all-False mask and changes nothing.
C28_FillNanPixels ==
    (pixels.op = "fill_nan_pixels" /\ ~pixels.noise) =>
        /\ shape(pixels.image) = shape(pixels.before)
        /\ shape(pixels.result) = shape(pixels.before)
        /\ \A r \in 1..Len(pixels.before) : \A c \in 1..Len(pixels.before[r]) :
              /\ pixels.image[r][c] = IF pixels.before[r][c] = NaN THEN 0 ELSE pixels.before[r][c]
              /\ pixels.result[r][c] = (pixels.before[r][c] = NaN)
        /\ LET second == fill_nan_pixels(pixels.image, NoNoise)
           IN /\ second.image = pixels.image
              /\ \A r \in 1..Len(second.nan_mask) : \A c \in 1..Len(second.nan_mask[r]) :
                    ~second.nan_mask[r][c]

\* a first call has filled an image that had NaN and lit pixels
C28_Witness ==
    /\ pixels.op = "fill_nan_pixels"
    /\ ~pixels.noise
    /\ \E r \in 1..Len(pixels.before) : \E c \in 1..Len(pixels.before[r]) :
          pixels.before[r][c] = NaN /\ pixels.image[r][c] = 0 /\ pixels.result[r][c]
    /\ \E r \in 1..Len(pixels.before) : \E c \in 1..Len(pixels.before[r]) :
          pixels.before[r][c] = 1 /\ pixels.image[r][c] = 1 /\ ~pixels.result[r][c]

-----------------------------------------------------------------------------
(* Image records: what load_benchmark_images and simtel_event_to_images     *)
(* return, with the shape of every array                                   *)

\* the shapes of a 2-D array the model tries
Shapes2D == {<<r, c>> : r \in 1..MaxRows, c \in 1..MaxCols}

\* an array with its shape: ndim axes, the last two of shape shp
ShapedArray(ndim, shp, v) ==
    [ndim |-> ndim, px |-> [i \in 1..(shp[1] * shp[2]) |-> v], shape |-> shp]

\* the file save_benchmark_images writes for arrays of the right ndim whose
\* input image, reference image and mask have the given shapes
SavedFile(in_shape, ref_shape, mask_shape) ==
    save_benchmark_images(ShapedArray(2, in_shape, 1), ShapedArray(2, ref_shape, 2),
                          ShapedArray(3, in_shape, 3), ShapedArray(3, in_shape, 4),
                          ShapedArray(3, in_shape, 5), ShapedArray(3, in_shape, 6),
                          ShapedArray(2, mask_shape, 1),
                          header_meta(SampleMeta, 1), NoFile).fs

RecordEvents ==
    {MakeEvent(1, 0, <<1>>,
               << TelData(cam_id, [p \in Pixels |-> LST_CAM_CHANNEL_THRESHOLD], 1,
                          [p \in Pixels |-> 0], [p \in Pixels |-> MaxCharge + p]) >>) :
        cam_id \in CamIds}

InitRecord ==
    /\ fs \in {SavedFile(a, b, c) : a \in Shapes2D, b \in Shapes2D, c \in Shapes2D}
    /\ tel_event \in RecordEvents
    /\ image = NoImage
    /\ open_handles = 0
    /\ saved = NotSaved
    /\ ret = NoCall
    /\ pixels = <<>>
    /\ dl1_integration_correction = <<>>
    /\ gens = <<>>
    /\ stats = <<>>
    /\ source = <<>>
    /\ gen = <<>>
    /\ yielded = <<>>
    /\ close_calls = 0
    /\ disk = <<>>
    /\ walk = <<>>
    /\ batch = <<>>
    /\ job = <<>>

NextRecord ==
    \/ Call_load_benchmark_images /\ UNCHANGED <<image_vars, gen_vars, walk_vars, batch_vars, main_vars, pixel_vars, calib_vars, stats_vars>>
    \/ Call_simtel_event_to_images /\ UNCHANGED <<fits_vars, gen_vars, walk_vars, batch_vars, main_vars, pixel_vars, calib_vars, stats_vars>>

SpecRecord == InitRecord /\ [][NextRecord]_vars

\* C22: in every 2-D image record a loader returns, the input image and the
\* reference image have the same spatial shape and the pixel mask has that
\* shape too: for load_benchmark_images on a file accepted as version 1, and
\* for simtel_event_to_images without ctapipe_format, whatever mix_channels.
C22_ImageRecordShapes ==
    /\ (ret.op = "load_benchmark_images" /\ ret.outcome = "ok") =>
          /\ ret.images.input_image.shape = ret.images.reference_image.shape
          /\ ret.images.pixels_mask.shape = ret.images.input_image.shape
    /\ (image.outcome = "ok" /\ ~image.ctapipe_format) =>
          /\ shape(image.image.input_image) = shape(image.image.reference_image)
          /\ shape(image.image.pixels_mask) = shape(image.image.input_image)

-----------------------------------------------------------------------------
(* The score histogram utility: utils/plot_score_histogram_by_decades_of_energy.py *)
(* Energies are counted in tenths of a TeV: 0.1 TeV is 1, 1000.0 TeV is 10000.     *)

MaxRecords == 2

\* one entry of the "io" list of a score file
ScoreRecord(tel_id, mc_energy, aborted, score) ==
    [tel_id |-> tel_id, mc_energy |-> mc_energy, aborted |-> aborted, score |-> score]

\* common.parse_json_file: the dictionary stored in the file
parse_json_file(json_disk, json_file_path) == json_disk[json_file_path]

\* common.image_filter_equals on "tel_id": the entries of "io" with that value
image_filter_equals(json_dict, value) ==
    [json_dict EXCEPT !.io = SelectSeq(@, LAMBDA rec : rec.tel_id = value)]

\* common.image_filter_range on "mc_energy": the entries of "io" whose energy
\* is in [min_value, max_value)
image_filter_range(json_dict, min_value, max_value) ==
    [json_dict EXCEPT !.io =
        SelectSeq(@, LAMBDA rec : min_value <= rec.mc_energy /\ rec.mc_energy < max_value)]

\* common.extract_score_array: the score of every entry of "io", in order
extract_score_array(json_dict) == [i \in 1..Len(json_dict.io) |-> json_dict.io[i].score]

\* a slip of copy and paste: the first call made with the limits its comment names
energy_buckets_pasted(json_dict) ==
    << image_filter_range(json_dict, 10, 100),
       image_filter_range(json_dict, 10, 100),
       image_filter_range(json_dict, 100, 1000),
       image_filter_range(json_dict, 1000, 10000) >>

\* json_dict1 .. json_dict4: the four calls of image_filter_range, each on a
\* deep copy of json_dict
energy_buckets(json_dict) ==
    << image_filter_range(json_dict, 1, 10),
       image_filter_range(json_dict, 10, 100),
       image_filter_range(json_dict, 100, 1000),
       image_filter_range(json_dict, 1000, 10000) >>

\* the test of the two flags never made
flags_check_skipped(run) == [run EXCEPT !.status = "fetching"]

\* if exclude_aborted and aborted_only: raise Exception(...)
flags_check(run) ==
    IF run.args.exclude_aborted /\ run.args.aborted_only
    THEN [run EXCEPT !.status = "raised", !.error = "Exception"]
    ELSE [run EXCEPT !.status = "fetching"]

\* the body of the loop over json_file_path_list for the file at index f
fetch_score(run) ==
    LET json_file_path == run.args.fileargs[run.f]
        parsed == parse_json_file(run.json_disk, json_file_path)
        json_dict == IF ~run.args.tel_id.is_none
                     THEN image_filter_equals(parsed, run.args.tel_id.value)
                     ELSE parsed
        buckets == energy_buckets(json_dict)
    IN [run EXCEPT !.parsed = Append(@, json_file_path),
                   !.data_list = [k \in 1..4 |-> Append(@[k], extract_score_array(buckets[k]))],
                   !.label_list = Append(@, json_dict.label),
                   !.f = @ + 1]

\* the four histograms are drawn and the figure saved to output_file_path
plot_and_save(run) ==
    [run EXCEPT !.status = "done",
                !.written = Append(@, IF run.args.output.is_none
                                      THEN "score_histogram_metric.pdf"
                                      ELSE run.args.output.value)]

-----------------------------------------------------------------------------
(* The score files and the command lines the model tries                   *)

\* energies below, at, between and above the limits of the four buckets
Energies == {0, 1, 5, 10, 50, 100, 500, 1000, 5000, 10000, 20000}

\* a score file of n entries: entry i belongs to telescope i and its score
\* names the file and the entry
ScoreFile(label, base, n, energy, aborted) ==
    [label |-> label,
     io |-> [i \in 1..n |-> ScoreRecord(i, energy[i], aborted[i], base + i)]]

ScoreFiles ==
    UNION {{ScoreFile("A", 0, n, energy, aborted) :
               energy \in [1..n -> Energies], aborted \in [1..n -> BOOLEAN]} : n \in 0..MaxRecords}

OtherScoreFile == ScoreFile("B", MaxRecords, 1, <<50>>, <<TRUE>>)

StatsArgs ==
    [exclude_aborted : BOOLEAN, aborted_only : BOOLEAN,
     tel_id : {[is_none |-> TRUE, value |-> 0], [is_none |-> FALSE, value |-> 1]},
     output : {NoOption},
     fileargs : {<<"a.json">>, <<"a.json", "b.json">>}]

NoRun(args, json_disk) ==
    [status |-> "start", error |-> "", args |-> args, json_disk |-> json_disk, f |-> 1,
     parsed |-> <<>>, data_list |-> <<  <<>>, <<>>, <<>>, <<>>  >>, label_list |-> <<>>,
     written |-> <<>>]

InitStats ==
    /\ stats \in {NoRun(args, [p \in {"a.json", "b.json"} |->
                                  IF p = "a.json" THEN file ELSE OtherScoreFile]) :
                     args \in StatsArgs, file \in ScoreFiles}
    /\ pixels = <<>>
    /\ dl1_integration_correction = <<>>
    /\ gens = <<>>
    /\ fs = NoFile
    /\ open_handles = 0
    /\ saved = NotSaved
    /\ ret = NoCall
    /\ tel_event = <<>>
    /\ image = <<>>
    /\ source = <<>>
    /\ gen = <<>>
    /\ yielded = <<>>
    /\ close_calls = 0
    /\ disk = <<>>
    /\ walk = <<>>
    /\ batch = <<>>
    /\ job = <<>>

\* the options are read and the two flags tested
Stats_checks_flags ==
    /\ stats.status = "start"
    /\ stats' = flags_check(stats)

\* one turn of the loop over the score files
Stats_fetches_score ==
    /\ stats.status = "fetching"
    /\ stats.f <= Len(stats.args.fileargs)
    /\ stats' = fetch_score(stats)

\* after the loop: the figure
Stats_plots ==
    /\ stats.status = "fetching"
    /\ stats.f > Len(stats.args.fileargs)
    /\ stats' = plot_and_save(stats)

NextStats ==
    \/ Stats_checks_flags /\ UNCHANGED <<fits_vars, image_vars, gen_vars, walk_vars, batch_vars, main_vars, pixel_vars, calib_vars>>
    \/ Stats_fetches_score /\ UNCHANGED <<fits_vars, image_vars, gen_vars, walk_vars, batch_vars, main_vars, pixel_vars, calib_vars>>
    \/ Stats_plots /\ UNCHANGED <<fits_vars, image_vars, gen_vars, walk_vars, batch_vars, main_vars, pixel_vars, calib_vars>>

SpecStats == InitStats /\ [][NextStats]_vars

-----------------------------------------------------------------------------
(* Properties of the score histogram utility                               *)

\* C23: with --exclude-aborted and --aborted-only both given, the run ends in
\* the error raised for the two flags, no score file is ever parsed and no
\* output file is ever written.
C23_IncompatibleFlagsFailFirst ==
    (stats.args.exclude_aborted /\ stats.args.aborted_only) =>
        /\ stats.status \in {"start", "raised"}
        /\ stats.parsed = <<>>
        /\ stats.written = <<>>
        /\ stats.data_list = <<  <<>>, <<>>, <<>>, <<>>  >>

\* a run with both flags has raised, two score files waiting unread
C23_Witness ==
    /\ stats.args.exclude_aborted
    /\ stats.args.aborted_only
    /\ stats.status = "raised"
    /\ stats.error = "Exception"
    /\ Len(stats.args.fileargs) = 2
    /\ stats.parsed = <<>>
    /\ stats.written = <<>>


\* the entries of the i-th parsed file that pass the --telid filter
Fetched(i) ==
    SelectSeq(stats.json_disk[stats.parsed[i]].io,
              LAMBDA rec : stats.args.tel_id.is_none \/ rec.tel_id = stats.args.tel_id.value)

\* the entry's score is among the data of histogram k for the i-th parsed file
InBucket(k, i, rec) ==
    \E j \in 1..Len(stats.data_list[k][i]) : stats.data_list[k][i][j] = rec.score

InEnergyRange(rec) == 1 <= rec.mc_energy /\ rec.mc_energy < 10000

\* C24: in a finished run the aborted-record flags decide which entries reach
\* the histograms: with --exclude-aborted no aborted entry is in any bucket,
\* with --aborted-only every entry in a bucket is an aborted one, and with
\* neither flag every entry of the energy range is in a bucket.
C24_AbortedFlagsFilter ==
    stats.status = "done" =>
        \A i \in 1..Len(stats.parsed) : \A n \in 1..Len(Fetched(i)) :
            LET rec == Fetched(i)[n]
                contributes == \E k \in 1..4 : InBucket(k, i, rec)
            IN /\ stats.args.exclude_aborted => (rec.aborted => ~contributes)
               /\ stats.args.aborted_only => (contributes => rec.aborted)
               /\ (~stats.args.exclude_aborted /\ ~stats.args.aborted_only) =>
                     (InEnergyRange(rec) => contributes)

\* the bucket the claim gives to an energy: none outside [0.1, 1000) TeV
BucketsOf(mc_energy) ==
    IF 1 <= mc_energy /\ mc_energy < 10 THEN {1}
    ELSE IF 10 <= mc_energy /\ mc_energy < 100 THEN {2}
    ELSE IF 100 <= mc_energy /\ mc_energy < 1000 THEN {3}
    ELSE IF 1000 <= mc_energy /\ mc_energy < 10000 THEN {4}
    ELSE {}

-----------------------------------------------------------------------------
(* More properties of the batch driver and of simtel_event_to_images       *)

\* the files taken so far whose assessment raises nothing
AssessedSoFar == SelectSeq(job.done, Scored)

C27_UnknownCameraRaises ==
    (image.outcome # "" /\ tel_event.tel[1].cam_id \notin RecognisedCams) =>
        /\ image.outcome = "NotImplementedError"
        /\ image.image = None


\* C30: simtel_event_to_images leaves the event as it was: after every call
\* the per-channel DL1 image of the telescope is what it was before, and a
\* second extraction with the same flags returns the same input image.
C30_EventUnchanged ==
    [][/\ tel_event' = tel_event
       /\ (/\ image.outcome = "ok"
           /\ image'.ctapipe_format = image.ctapipe_format
           /\ image'.mix_channels = image.mix_channels)
          => (image'.outcome = "ok" /\ image'.image.input_image = image.image.input_image)]_vars

\* a two-channel camera was extracted with mix_channels on: pixel 1 of the
\* result is the high-gain charge, its low-gain charge was zeroed in the
\* working array and is still in the event
C30_Witness ==
    /\ image.outcome = "ok"
    /\ image.mix_channels
    /\ image.ctapipe_format
    /\ tel_event.tel[1].cam_id \in TWO_CHANNELS_CAMERAS
    /\ image.image.input_image[1] = tel_event.tel[1].dl1_image[1][1]
    /\ tel_event.tel[1].dl1_image[2][1] # 0
    /\ SeqMax(tel_event.tel[1].r0_adc_samples[1][1]) < LST_CAM_CHANNEL_THRESHOLD

-----------------------------------------------------------------------------
(* The integration correction of the calibration library, and the          *)
(* simtel_images_generator objects of one process                          *)

MaxGens == 2

\* what ctapipe.calib.camera.dl1.integration_correction can name: the function
\* of the library, or the all-ones lambda made by generator number by
LibraryCorrection == [func |-> "integration_correction", by |-> 0]
NullCorrection(by) == [func |-> "null_integration_correction_func", by |-> by]

\* a slip that looks like a fix: the flag set puts the library function back
patch_restoring(attr, integration_correction, g) ==
    IF ~integration_correction THEN NullCorrection(g) ELSE LibraryCorrection

\* if not integration_correction: ctapipe.calib.camera.dl1.integration_correction = lambda
patch(attr, integration_correction, g) ==
    IF ~integration_correction THEN NullCorrection(g) ELSE attr

\* the loop over the events, resumed at event e: calib.calibrate(event) runs
\* with the function the attribute names at that moment; the body stops at
\* the first event that has an image to yield, or at the end of the file
RECURSIVE calib_resume(_, _, _)
calib_resume(frame, attr, e) ==
    IF e > Len(frame.events)
    THEN [frame EXCEPT !.status = "finished", !.e = e]
    ELSE IF frame.events[e] > 0
    THEN [frame EXCEPT !.status = "suspended", !.e = e + 1,
                       !.calibrated = Append(@, attr.func)]
    ELSE calib_resume([frame EXCEPT !.calibrated = Append(@, attr.func)], attr, e + 1)

\* the Simtel files: per event, the number of images it gives; files of
\* events that give one image each, and a file whose one event gives none
CalibStreams == {[k \in 1..n |-> 1] : n \in 0..MaxEvents} \cup {<<0>>}

\* the arguments of a generator: the flag, with a known integrator and any
\* of the files, or with an unknown integrator and one file
CalibArgs ==
    {[integration_correction |-> c, integrator |-> "LocalPeakIntegrator", events |-> ev] :
        c \in BOOLEAN, ev \in CalibStreams}
    \cup {[integration_correction |-> c, integrator |-> "TwoPassIntegrator", events |-> <<1>>] :
             c \in BOOLEAN}

InitCalib ==
    /\ dl1_integration_correction = LibraryCorrection
    /\ gens = <<>>
    /\ pixels = <<>>
    /\ stats = <<>>
    /\ fs = NoFile
    /\ open_handles = 0
    /\ saved = NotSaved
    /\ ret = NoCall
    /\ tel_event = <<>>
    /\ image = <<>>
    /\ source = <<>>
    /\ gen = <<>>
    /\ yielded = <<>>
    /\ close_calls = 0
    /\ disk = <<>>
    /\ walk = <<>>
    /\ batch = <<>>
    /\ job = <<>>

\* simtel_images_generator(...): a generator object; nothing of its body runs
Process_creates_generator ==
    /\ Len(gens) < MaxGens
    /\ \E args \in CalibArgs :
          gens' = Append(gens, [status |-> "created", integrator |-> args.integrator,
                                integration_correction |-> args.integration_correction,
                                events |-> args.events, e |-> 1, calibrated |-> <<>>])
    /\ UNCHANGED dl1_integration_correction

\* first next() of generator g with an integrator that is not known: ValueError
\* is raised before the calibrator is made
Process_next_raises_ValueError ==
    \E g \in 1..Len(gens) :
        /\ gens[g].status = "created"
        /\ ~integrator_ok(gens[g].integrator)
        /\ gens' = [gens EXCEPT ![g].status = "raised"]
        /\ UNCHANGED dl1_integration_correction

\* first next() of generator g: the calibrator is made, the attribute is
\* patched, the loop runs to its first yield or to the end of the file
Process_first_next ==
    \E g \in 1..Len(gens) :
        /\ gens[g].status = "created"
        /\ integrator_ok(gens[g].integrator)
        /\ dl1_integration_correction' =
              patch(dl1_integration_correction, gens[g].integration_correction, g)
        /\ gens' = [gens EXCEPT ![g] =
              calib_resume(@, patch(dl1_integration_correction, @.integration_correction, g), 1)]

\* a later next() of generator g
Process_next ==
    \E g \in 1..Len(gens) :
        /\ gens[g].status = "suspended"
        /\ gens' = [gens EXCEPT ![g] = calib_resume(@, dl1_integration_correction, @.e)]
        /\ UNCHANGED dl1_integration_correction

NextCalib ==
    \/ Process_creates_generator /\ UNCHANGED <<fits_vars, image_vars, gen_vars, walk_vars, batch_vars, main_vars, pixel_vars, stats_vars>>
    \/ Process_next_raises_ValueError /\ UNCHANGED <<fits_vars, image_vars, gen_vars, walk_vars, batch_vars, main_vars, pixel_vars, stats_vars>>
    \/ Process_first_next /\ UNCHANGED <<fits_vars, image_vars, gen_vars, walk_vars, batch_vars, main_vars, pixel_vars, stats_vars>>
    \/ Process_next /\ UNCHANGED <<fits_vars, image_vars, gen_vars, walk_vars, batch_vars, main_vars, pixel_vars, stats_vars>>

SpecCalib == InitCalib /\ [][NextCalib]_vars

\* generator g has run its set-up and entered its loop over the events
Iterating(g) == gens[g].status \in {"suspended", "finished"}

CorrectionOff ==
    \E g \in 1..Len(gens) : Iterating(g) /\ ~gens[g].integration_correction

\* C29: once a generator created with integration_correction=False has
\* started iterating, the attribute names an all-ones function in every later
\* state, and every event any generator calibrates from then on, one created
\* with integration_correction=True included, is calibrated with it: nothing
\* puts the library function back.
C29_CorrectionOffForGood ==
    [][CorrectionOff =>
          /\ dl1_integration_correction'.func = "null_integration_correction_func"
          /\ \A h \in 1..Len(gens') :
                \A k \in 1..Len(gens'[h].calibrated) :
                    (h > Len(gens) \/ k > Len(gens[h].calibrated)) =>
                        gens'[h].calibrated[k] = "null_integration_correction_func"]_vars

\* a generator made with integration_correction=False has iterated, and a
\* generator made afterwards with integration_correction=True has calibrated
\* an event with the all-ones function
C29_Witness ==
    /\ Len(gens) = 2
    /\ ~gens[1].integration_correction
    /\ Iterating(1)
    /\ gens[2].integration_correction
    /\ gens[2].calibrated # <<>>
    /\ gens[2].calibrated[1] = "null_integration_correction_func"
    /\ dl1_integration_correction = NullCorrection(1)

====
